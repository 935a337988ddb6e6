----------------------------- MODULE CaptureLoop -----------------------------
(***************************************************************************)
(* core/PacketInterceptor: the capture thread takes batches of packets out *)
(* of WinDivert, decides for each whether the effects apply, gives what is *)
(* to leave at once back to WinDivert as one batch, and pushes the rest to *)
(* the delay queue.  The UI thread starts it and stops it: Stop clears     *)
(* running_, shuts receiving down, joins the capture thread, stops the     *)
(* delay queue (which flushes), and only then closes the handle.           *)
(*                                                                         *)
(* A packet is its number in order of arrival.  What the flow table, the   *)
(* target set and the effect engine say about it, its size, and the        *)
(* outcome of every WinDivert call are chosen by the environment.  Of the  *)
(* delay queue only the number of its slots in use is kept, as DelayPool   *)
(* has it; DelayQueue, which models the rest, implements DelayPool.        *)
(***************************************************************************)
EXTENDS Naturals, Sequences, SequencesExt

CONSTANTS
  BatchSize,      \* kBatchSize of CaptureLoop
  MaxDuplicates,  \* kMaxDuplicateCopies
  PoolSize,       \* kDelayQueueCapacity
  Tolerated,      \* kMaxConsecutiveRecvFailures
  MaxPackets,     \* bound: packets that ever arrive
  MaxStarts       \* bound: how often Start opens the driver

ASSUME SizesAssumption == BatchSize \in Nat \ {0} /\ PoolSize \in Nat \ {0}
ASSUME LimitsAssumption == MaxDuplicates \in Nat /\ Tolerated \in Nat
ASSUME BoundsAssumption == MaxPackets \in Nat /\ MaxStarts \in Nat

Numbers == 1 .. MaxPackets

VARIABLES
  arrived,               \* packets that have reached the driver
  driver_queue,          \* WinDivert's queue of diverted packets
  handle,                \* handle_: "invalid", "open", "recv_shut"
  running,               \* running_
  starts,                \* how often the driver was opened
  ui_pc,                 \* where the UI thread is in Stop
  capture_pc,            \* where the capture thread is in CaptureLoop
  consecutive_failures,  \* CaptureLoop's local counter
  batch,                 \* received packets that are still to be looked at
  send_buf,              \* send_buf / send_addrs: what leaves at the end of the batch
  to_push,               \* emission.scheduled_packets still to be pushed
  delay_queue,           \* delay_queue_: "none", "live", "flushing"
  delayed,               \* packets the delay queue holds
  returning,             \* its slots that are sent but not yet back in the pool
  counts,                \* Diagnostics counters
  flushed,               \* history: packets that Stop's flush gave to WinDivert
  sent,                  \* history: the capture thread's successful sends, in order
  failed,                \* history: packets of its failed sends
  bypassed,              \* history: packets it decided to leave alone
  streak                 \* history: receive failures since the last batch

driver_vars == <<arrived, driver_queue>>
ui_vars == <<handle, running, starts, ui_pc>>
delay_vars == <<delay_queue, delayed, returning>>
history == <<flushed, sent, failed, bypassed, streak>>
vars == <<driver_vars, ui_vars, capture_pc, consecutive_failures, batch, send_buf,
          to_push, delay_vars, counts, history>>

Counts == [captured : Nat, dropped : Nat, duplicated : Nat, oversized : Nat,
           exhausted : Nat, reinjected : Nat, failures : Nat]
NoCounts == [captured |-> 0, dropped |-> 0, duplicated |-> 0, oversized |-> 0,
             exhausted |-> 0, reinjected |-> 0, failures |-> 0]

Init ==
  /\ arrived = 0 /\ driver_queue = << >>
  /\ handle = "invalid" /\ running = FALSE /\ starts = 0 /\ ui_pc = "rest"
  /\ capture_pc = "none" /\ consecutive_failures = 0
  /\ batch = << >> /\ send_buf = << >> /\ to_push = 0
  /\ delay_queue = "none" /\ delayed = 0 /\ returning = 0
  /\ counts = NoCounts
  /\ flushed = 0 /\ sent = << >> /\ failed = {} /\ bypassed = {} /\ streak = 0

-----------------------------------------------------------------------------
(* The driver: it diverts packets while the handle takes them. *)

Arrive ==
  /\ handle = "open"
  /\ arrived < MaxPackets
  /\ arrived' = arrived + 1
  /\ driver_queue' = Append(driver_queue, arrived')
  /\ UNCHANGED <<ui_vars, capture_pc, consecutive_failures, batch, send_buf, to_push,
                 delay_vars, counts, history>>

-----------------------------------------------------------------------------
(* The capture thread *)

\* while (running_.load())
CheckRunning ==
  /\ capture_pc = "check"
  /\ capture_pc' = IF running THEN "recv" ELSE "exited"
  /\ UNCHANGED <<driver_vars, ui_vars, consecutive_failures, batch, send_buf, to_push,
                 delay_vars, counts, history>>

\* Seeded fault: the failures of different streaks add up.
RecvBatchKeepsFailures ==
  /\ capture_pc = "recv"
  /\ \E k \in 1 .. BatchSize :
       /\ k <= Len(driver_queue)
       /\ batch' = SubSeq(driver_queue, 1, k)
       /\ driver_queue' = SubSeq(driver_queue, k + 1, Len(driver_queue))
       /\ counts' = [counts EXCEPT !.captured = @ + k]
  /\ streak' = 0
  /\ send_buf' = << >>
  /\ capture_pc' = "parse"
  /\ UNCHANGED <<arrived, ui_vars, consecutive_failures, to_push, delay_vars, flushed,
                 sent, failed, bypassed>>

\* WinDivertRecvEx returns some of the packets that wait, in their order.
RecvBatch ==
  /\ capture_pc = "recv"
  /\ \E k \in 1 .. BatchSize :
       /\ k <= Len(driver_queue)
       /\ batch' = SubSeq(driver_queue, 1, k)
       /\ driver_queue' = SubSeq(driver_queue, k + 1, Len(driver_queue))
       /\ counts' = [counts EXCEPT !.captured = @ + k]
  /\ consecutive_failures' = 0
  /\ streak' = 0
  /\ send_buf' = << >>
  /\ capture_pc' = "parse"
  /\ UNCHANGED <<arrived, ui_vars, to_push, delay_vars, flushed, sent, failed, bypassed>>

\* ERROR_NO_DATA: receiving was shut down and the driver's queue is empty.
RecvNoData ==
  /\ capture_pc = "recv"
  /\ handle = "recv_shut"
  /\ driver_queue = << >>
  /\ capture_pc' = "exited"
  /\ UNCHANGED <<driver_vars, ui_vars, consecutive_failures, batch, send_buf, to_push,
                 delay_vars, counts, history>>

\* ERROR_INVALID_HANDLE, ERROR_OPERATION_ABORTED: the loop ends and says so.
RecvTerminal ==
  /\ capture_pc = "recv"
  /\ capture_pc' = "fatal"
  /\ UNCHANGED <<driver_vars, ui_vars, consecutive_failures, batch, send_buf, to_push,
                 delay_vars, counts, history>>

\* Seeded fault: the failure is not counted.
RecvTransientForgets ==
  /\ capture_pc = "recv"
  /\ streak' = IF streak <= Tolerated THEN streak + 1 ELSE streak
  /\ capture_pc' = IF consecutive_failures > Tolerated THEN "fatal" ELSE "check"
  /\ UNCHANGED <<driver_vars, ui_vars, consecutive_failures, batch, send_buf, to_push,
                 delay_vars, counts, flushed, sent, failed, bypassed>>

\* Any other error is tolerated kMaxConsecutiveRecvFailures times in a row.
RecvTransient ==
  /\ capture_pc = "recv"
  /\ consecutive_failures' = consecutive_failures + 1
  /\ streak' = streak + 1
  /\ capture_pc' = IF consecutive_failures' > Tolerated THEN "fatal" ELSE "check"
  /\ UNCHANGED <<driver_vars, ui_vars, batch, send_buf, to_push, delay_vars, counts,
                 flushed, sent, failed, bypassed>>

\* The packet in hand is finished: the next of the batch, or the batch is sent.
AfterPacket(rest) == IF rest = << >> THEN "send" ELSE "parse"

\* Seeded fault: the rest of the batch is reinjected, but the loop does not stop.
ParseFailsNoBreak ==
  /\ capture_pc = "parse"
  /\ send_buf' = send_buf \o batch
  /\ bypassed' = bypassed \cup ToSet(batch)
  /\ batch' = Tail(batch)
  /\ capture_pc' = AfterPacket(batch')
  /\ UNCHANGED <<driver_vars, ui_vars, consecutive_failures, to_push, delay_vars, counts,
                 flushed, sent, failed, streak>>

\* WinDivertHelperParsePacket fails: the rest of the batch is reinjected as it is.
ParseFails ==
  /\ capture_pc = "parse"
  /\ send_buf' = send_buf \o batch
  /\ bypassed' = bypassed \cup ToSet(batch)
  /\ batch' = << >>
  /\ capture_pc' = "send"
  /\ UNCHANGED <<driver_vars, ui_vars, consecutive_failures, to_push, delay_vars, counts,
                 flushed, sent, failed, streak>>

\* A packet that is not the target's, or one of the target's that does not fit
\* an OwnedPacket, goes to append_immediate_packet, which gives up what exceeds
\* the MTU.
LeaveAlone(targeted, fits) ==
  /\ capture_pc = "parse"
  /\ ~ targeted \/ ~ fits
  /\ send_buf' = IF fits THEN Append(send_buf, Head(batch)) ELSE send_buf
  /\ counts' = [counts EXCEPT !.oversized = @ + (IF fits THEN 0 ELSE 1)]
  /\ bypassed' = IF targeted THEN bypassed ELSE bypassed \cup {Head(batch)}
  /\ batch' = Tail(batch)
  /\ capture_pc' = AfterPacket(batch')
  /\ UNCHANGED <<driver_vars, ui_vars, consecutive_failures, to_push, delay_vars,
                 flushed, sent, failed, streak>>

\* The effect engine drops the target's packet.
DropPacket ==
  /\ capture_pc = "parse"
  /\ counts' = [counts EXCEPT !.dropped = @ + 1]
  /\ batch' = Tail(batch)
  /\ capture_pc' = AfterPacket(batch')
  /\ UNCHANGED <<driver_vars, ui_vars, consecutive_failures, send_buf, to_push,
                 delay_vars, history>>

\* Seeded fault: the packet itself is counted among its duplicates.
EmitPacketCountsAll(immediate, scheduled) ==
  /\ capture_pc = "parse"
  /\ immediate + scheduled > 0
  /\ counts' = [counts EXCEPT !.duplicated = @ + immediate + scheduled]
  /\ send_buf' = send_buf \o [c \in 1 .. immediate |-> Head(batch)]
  /\ to_push' = scheduled
  /\ batch' = Tail(batch)
  /\ capture_pc' = IF scheduled > 0 THEN "push" ELSE AfterPacket(batch')
  /\ UNCHANGED <<driver_vars, ui_vars, consecutive_failures, delay_vars, history>>

\* The effect engine emits copies of it: the first ones leave with the batch,
\* the others are scheduled.
EmitPacket(immediate, scheduled) ==
  /\ capture_pc = "parse"
  /\ immediate + scheduled > 0
  /\ counts' = [counts EXCEPT !.duplicated = @ + immediate + scheduled - 1]
  /\ send_buf' = send_buf \o [c \in 1 .. immediate |-> Head(batch)]
  /\ to_push' = scheduled
  /\ batch' = Tail(batch)
  /\ capture_pc' = IF scheduled > 0 THEN "push" ELSE AfterPacket(batch')
  /\ UNCHANGED <<driver_vars, ui_vars, consecutive_failures, delay_vars, history>>

\* Seeded fault: a slot on its way back to the pool is taken for a free one.
PushDelayedTakesReturning ==
  /\ capture_pc = "push"
  /\ to_push' = to_push - 1
  /\ IF delayed < PoolSize
       THEN delayed' = delayed + 1 /\ UNCHANGED counts
       ELSE counts' = [counts EXCEPT !.exhausted = @ + 1] /\ UNCHANGED delayed
  /\ capture_pc' = IF to_push' > 0 THEN "push" ELSE AfterPacket(batch)
  /\ UNCHANGED <<driver_vars, ui_vars, consecutive_failures, batch, send_buf,
                 delay_queue, returning, history>>

\* DelayQueue::Push takes a slot, or drops the packet when the pool is empty.
PushDelayed ==
  /\ capture_pc = "push"
  /\ to_push' = to_push - 1
  /\ IF delayed + returning < PoolSize
       THEN delayed' = delayed + 1 /\ UNCHANGED counts
       ELSE counts' = [counts EXCEPT !.exhausted = @ + 1] /\ UNCHANGED delayed
  /\ capture_pc' = IF to_push' > 0 THEN "push" ELSE AfterPacket(batch)
  /\ UNCHANGED <<driver_vars, ui_vars, consecutive_failures, batch, send_buf,
                 delay_queue, returning, history>>

\* One WinDivertSendEx for the whole batch.  When it fails nothing is tried again.
SendBatch(ok) ==
  /\ capture_pc = "send"
  /\ counts' = IF ok THEN [counts EXCEPT !.reinjected = @ + Len(send_buf)]
                     ELSE [counts EXCEPT !.failures = @ + Len(send_buf)]
  /\ sent' = IF ok THEN sent \o send_buf ELSE sent
  /\ failed' = IF ok THEN failed ELSE failed \cup ToSet(send_buf)
  /\ send_buf' = << >>
  /\ capture_pc' = "check"
  /\ UNCHANGED <<driver_vars, ui_vars, consecutive_failures, batch, to_push, delay_vars,
                 flushed, bypassed, streak>>

HandlePacket ==
  \/ ParseFails
  \/ \E targeted, fits \in BOOLEAN : LeaveAlone(targeted, fits)
  \/ DropPacket
  \/ \E immediate, scheduled \in 0 .. MaxDuplicates + 1 :
       immediate + scheduled <= MaxDuplicates + 1 /\ EmitPacket(immediate, scheduled)
  \/ PushDelayed

Progress ==
  CheckRunning \/ RecvBatch \/ RecvNoData \/ HandlePacket \/ \E ok \in BOOLEAN : SendBatch(ok)

Capture == Progress \/ RecvTerminal \/ RecvTransient

-----------------------------------------------------------------------------
(* The delay queue *)

\* DrainLoop sends a batch of what is due; all of it is counted one way.
DrainSends(ok) ==
  /\ delay_queue = "live"
  /\ returning = 0
  /\ \E k \in 1 .. delayed :
       /\ delayed' = delayed - k
       /\ returning' = k
       /\ counts' = IF ok THEN [counts EXCEPT !.reinjected = @ + k]
                          ELSE [counts EXCEPT !.failures = @ + k]
  /\ UNCHANGED <<driver_vars, ui_vars, capture_pc, consecutive_failures, batch, send_buf,
                 to_push, delay_queue, history>>

DrainReturns ==
  /\ returning > 0
  /\ returning' = returning - 1
  /\ UNCHANGED <<driver_vars, ui_vars, capture_pc, consecutive_failures, batch, send_buf,
                 to_push, delay_queue, delayed, counts, history>>

Drain == DrainReturns \/ \E ok \in BOOLEAN : DrainSends(ok)

-----------------------------------------------------------------------------
(* The UI thread *)

\* Start.  While running_ is set it returns kAlreadyRunning, and when the driver
\* does not open it returns the error: neither changes anything.
Start ==
  /\ ui_pc = "rest"
  /\ ~ running
  /\ starts < MaxStarts
  /\ starts' = starts + 1
  /\ handle' = "open"
  /\ driver_queue' = << >>
  /\ delay_queue' = "live"
  /\ running' = TRUE
  /\ capture_pc' = "check"
  /\ consecutive_failures' = 0
  /\ streak' = 0
  /\ UNCHANGED <<arrived, ui_pc, batch, send_buf, to_push, delayed, returning, counts,
                 flushed, sent, failed, bypassed>>

\* Stop: running_.exchange(false).  Nothing was started: there is nothing to do.
StopBegins ==
  /\ ui_pc = "rest"
  /\ handle # "invalid"
  /\ running' = FALSE
  /\ ui_pc' = "shutdown"
  /\ UNCHANGED <<driver_vars, handle, starts, capture_pc, consecutive_failures, batch,
                 send_buf, to_push, delay_vars, counts, history>>

\* Seeded fault: the thread is joined without waking it.
StopShutsDownNothing ==
  /\ ui_pc = "shutdown"
  /\ ui_pc' = "join"
  /\ UNCHANGED <<driver_vars, handle, running, starts, capture_pc, consecutive_failures,
                 batch, send_buf, to_push, delay_vars, counts, history>>

\* Stop: WinDivertShutdown(RECV)
StopShutsDown ==
  /\ ui_pc = "shutdown"
  /\ handle' = "recv_shut"
  /\ ui_pc' = "join"
  /\ UNCHANGED <<driver_vars, running, starts, capture_pc, consecutive_failures, batch,
                 send_buf, to_push, delay_vars, counts, history>>

\* Seeded fault: the handle is closed before the delay queue is stopped.
StopJoinsSkipsFlush ==
  /\ ui_pc = "join"
  /\ capture_pc \in {"exited", "fatal"}
  /\ ui_pc' = "close"
  /\ UNCHANGED <<driver_vars, handle, running, starts, capture_pc, consecutive_failures,
                 batch, send_buf, to_push, delay_vars, counts, history>>

\* Stop: thread_.join()
StopJoins ==
  /\ ui_pc = "join"
  /\ capture_pc \in {"exited", "fatal"}
  /\ ui_pc' = "delay"
  /\ UNCHANGED <<driver_vars, handle, running, starts, capture_pc, consecutive_failures,
                 batch, send_buf, to_push, delay_vars, counts, history>>

\* Stop: delay_queue_->Stop() ends the drain thread, which returns its slots
\* first; the flush then sends what is left, one packet at a time.  It counts
\* failures only.
StopDelayQueue ==
  /\ ui_pc = "delay"
  /\ delay_queue = "live"
  /\ returning = 0
  /\ delay_queue' = "flushing"
  /\ UNCHANGED <<driver_vars, ui_vars, capture_pc, consecutive_failures, batch, send_buf,
                 to_push, delayed, returning, counts, history>>

FlushOne(ok) ==
  /\ delay_queue = "flushing"
  /\ delayed > 0
  /\ delayed' = delayed - 1
  /\ flushed' = IF ok THEN flushed + 1 ELSE flushed
  /\ counts' = IF ok THEN counts ELSE [counts EXCEPT !.failures = @ + 1]
  /\ UNCHANGED <<driver_vars, ui_vars, capture_pc, consecutive_failures, batch, send_buf,
                 to_push, delay_queue, returning, sent, failed, bypassed, streak>>

\* Stop: delay_queue_.reset()
StopResets ==
  /\ delay_queue = "flushing"
  /\ delayed = 0
  /\ delay_queue' = "none"
  /\ ui_pc' = "close"
  /\ UNCHANGED <<driver_vars, handle, running, starts, capture_pc, consecutive_failures,
                 batch, send_buf, to_push, delayed, returning, counts, history>>

\* Stop: WinDivertClose.  What the driver still had queued is gone with it.
StopCloses ==
  /\ ui_pc = "close"
  /\ handle' = "invalid"
  /\ driver_queue' = << >>
  /\ ui_pc' = "rest"
  /\ UNCHANGED <<arrived, running, starts, capture_pc, consecutive_failures, batch,
                 send_buf, to_push, delay_vars, counts, history>>

Stopping ==
  \/ StopShutsDown \/ StopJoins \/ StopDelayQueue
  \/ \E ok \in BOOLEAN : FlushOne(ok)
  \/ StopResets \/ StopCloses

\* The bound on Start is reached and everything has been stopped.
Done == starts = MaxStarts /\ handle = "invalid" /\ UNCHANGED vars

Next == Arrive \/ Capture \/ Drain \/ Start \/ StopBegins \/ Stopping \/ Done

Spec == Init /\ [][Next]_vars

\* The threads run.  Packets need not arrive, receiving need not fail, and the
\* user need not stop or start anything.
Fairness == WF_vars(Progress) /\ WF_vars(Drain) /\ WF_vars(Stopping)

FairSpec == Spec /\ Fairness

-----------------------------------------------------------------------------
(* Properties *)

InHand == Len(batch) + Len(send_buf) + to_push

\* Every variable stays in its range.
TypeOK ==
  /\ arrived \in 0 .. MaxPackets
  /\ driver_queue \in Seq(Numbers) /\ batch \in Seq(Numbers)
  /\ send_buf \in Seq(Numbers) /\ sent \in Seq(Numbers)
  /\ failed \subseteq Numbers /\ bypassed \subseteq Numbers
  /\ handle \in {"invalid", "open", "recv_shut"}
  /\ running \in BOOLEAN
  /\ starts \in 0 .. MaxStarts
  /\ ui_pc \in {"rest", "shutdown", "join", "delay", "close"}
  /\ capture_pc \in {"none", "check", "recv", "parse", "push", "send", "exited", "fatal"}
  /\ consecutive_failures \in 0 .. Tolerated + 1 /\ streak \in Nat
  /\ to_push \in 0 .. MaxDuplicates + 1
  /\ delay_queue \in {"none", "live", "flushing"}
  /\ delayed \in 0 .. PoolSize /\ returning \in 0 .. PoolSize
  /\ delayed + returning <= PoolSize
  /\ counts \in Counts
  /\ flushed \in Nat

\* The counters of the diagnostics tab account for every captured packet and
\* every duplicate, whatever failed on the way: each was dropped on purpose,
\* given up as oversized or for want of a slot, reinjected, or lost in a failed
\* send, or is still held.  Only what Stop's flush sent is counted nowhere.
CountersBalance ==
  counts.captured + counts.duplicated =
    counts.dropped + counts.oversized + counts.exhausted + counts.reinjected
      + counts.failures + flushed + delayed + InHand

\* Packets that leave with their batch leave in the order of their arrival, and
\* the ones the loop leaves alone leave once.
OnceInOrder ==
  LET out == sent \o send_buf \o batch
  IN  \A i, j \in 1 .. Len(out) :
        i < j => /\ out[i] <= out[j]
                 /\ out[i] \in bypassed => out[i] # out[j]

\* Nobody uses the driver's handle after it was closed: not the capture loop,
\* not the drain thread, not the flush.
HandleOutlivesUsers ==
  handle = "invalid" =>
    /\ capture_pc \in {"none", "exited", "fatal"}
    /\ delay_queue = "none"
    /\ InHand + delayed + returning = 0

Pool == INSTANCE DelayPool WITH
  Capacity <- PoolSize, phase <- delay_queue, refused <- counts.exhausted

\* The loop, the drain thread and Stop use the delay queue as DelayPool allows:
\* nothing is pushed before it is started or once it is being flushed, no slot is
\* used twice, and it is thrown away empty.
UsesPool == Pool!Spec

\* How the positions of the three threads and what they hold belong together.
ThreadsOK ==
  /\ capture_pc = "parse" <=> batch # << >> /\ to_push = 0
  /\ capture_pc = "push" <=> to_push > 0
  /\ capture_pc \notin {"parse", "push"} => batch = << >>
  /\ capture_pc \notin {"parse", "push", "send"} => send_buf = << >>
  /\ capture_pc = "none" => handle = "invalid"
  /\ ui_pc = "rest" => (handle = "open" <=> running) /\ (handle # "open" => handle = "invalid")
  /\ ui_pc # "rest" => ~ running /\ handle # "invalid"
  /\ ui_pc \in {"delay", "close"} => capture_pc \in {"exited", "fatal"}
  /\ handle # "invalid" /\ ui_pc \in {"rest", "shutdown", "join"} => delay_queue = "live"
  /\ delay_queue = "flushing" => ui_pc = "delay" /\ returning = 0
  /\ delay_queue = "none" => delayed = 0 /\ returning = 0 /\ (ui_pc = "close" \/ handle = "invalid")
  /\ ui_pc = "close" => delay_queue = "none"
  /\ capture_pc # "fatal" => consecutive_failures <= Tolerated
  /\ streak = consecutive_failures

\* Packets pass in single file: what is gone went in order, and went once when
\* it was left alone; what waits is in strict order, behind all that is decided.
SingleFile(gone, alone, waiting) ==
  /\ \A i, j \in DOMAIN gone :
       i < j => /\ gone[i] <= gone[j]
                /\ gone[i] \in alone => gone[i] # gone[j]
  /\ \A i, j \in DOMAIN waiting : i < j => waiting[i] < waiting[j]
  /\ \A n \in ToSet(gone) \cup alone, m \in ToSet(waiting) : n < m

LineOK ==
  LET gone == sent \o send_buf
      waiting == batch \o driver_queue
  IN  /\ SingleFile(gone, bypassed, waiting)
      /\ \A n \in ToSet(gone) \cup bypassed \cup ToSet(waiting) : n <= arrived

\* The inductive invariant: the threads and the handle, and the line of packets.
LoopInv == TypeOK /\ ThreadsOK /\ HandleOutlivesUsers
IInv == LoopInv /\ LineOK

\* The capture loop only declares the driver dead on a terminal error or when
\* more than kMaxConsecutiveRecvFailures calls failed without a batch between.
FatalOnlyWhenDead ==
  [][capture_pc # "fatal" /\ capture_pc' = "fatal" =>
       RecvTerminal \/ streak' > Tolerated]_vars

\* Stop returns, whatever the capture thread and the driver are doing.
StopTerminates == ui_pc # "rest" ~> ui_pc = "rest"

\* A diverted packet does not wait in the driver for ever while the capture
\* loop lives.
DivertedIsTaken ==
  \A n \in Numbers :
    n \in ToSet(driver_queue) ~>
      n \notin ToSet(driver_queue) \/ capture_pc \in {"exited", "fatal"}
=============================================================================
