----------------------------- MODULE DelayPool ------------------------------
(***************************************************************************)
(* core/DelayQueue as PacketInterceptor and the drain thread share it, by  *)
(* the numbers of its slots alone: how many hold a packet, how many were   *)
(* just sent and are on their way back, and how often a packet was refused.*)
(* DelayQueue implements this module, and CaptureLoop uses the queue as    *)
(* this module allows: what CaptureLoop leaves out of the queue is in       *)
(* DelayQueue.                                                             *)
(***************************************************************************)
EXTENDS Naturals

CONSTANT Capacity   \* kDelayQueueCapacity

VARIABLES
  phase,      \* "none", "live" from Start on, "flushing" once its thread is joined
  delayed,    \* slots that hold a packet
  returning,  \* slots of the last batch that are not yet back in the pool
  refused     \* Counter::kPoolExhausted

vars == <<phase, delayed, returning, refused>>

Init == phase = "none" /\ delayed = 0 /\ returning = 0 /\ refused = 0

Open ==
  /\ phase = "none"
  /\ phase' = "live"
  /\ UNCHANGED <<delayed, returning, refused>>

\* A packet is refused when every slot is in use, and only then.
Push ==
  /\ phase = "live"
  /\ IF delayed + returning < Capacity
       THEN delayed' = delayed + 1 /\ UNCHANGED refused
       ELSE refused' = refused + 1 /\ UNCHANGED delayed
  /\ UNCHANGED <<phase, returning>>

\* One batch at a time.
Send ==
  /\ phase = "live"
  /\ returning = 0
  /\ returning' \in 1 .. delayed
  /\ delayed' = delayed - returning'
  /\ UNCHANGED <<phase, refused>>

Return ==
  /\ returning > 0
  /\ returning' = returning - 1
  /\ UNCHANGED <<phase, delayed, refused>>

\* The drain thread returns the slots of its last batch before it ends.
Close ==
  /\ phase = "live"
  /\ returning = 0
  /\ phase' = "flushing"
  /\ UNCHANGED <<delayed, returning, refused>>

Flush ==
  /\ phase = "flushing"
  /\ delayed > 0
  /\ delayed' = delayed - 1
  /\ UNCHANGED <<phase, returning, refused>>

Closed ==
  /\ phase = "flushing"
  /\ delayed = 0
  /\ phase' = "none"
  /\ UNCHANGED <<delayed, returning, refused>>

Next == Open \/ Push \/ Send \/ Return \/ Close \/ Flush \/ Closed

Spec == Init /\ [][Next]_vars

\* A pool that has run dry gets slots back without its user's help.
Recovers == delayed + returning = Capacity ~> delayed + returning < Capacity
=============================================================================
