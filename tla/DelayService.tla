---------------------------- MODULE DelayService ----------------------------
(***************************************************************************)
(* What core/DelayQueue promises to the capture thread, without its pool,  *)
(* rings and threads: a packet that was accepted is held, is given to      *)
(* WinDivert once, not before it is due, and is not lost when the queue is *)
(* closed.  DelayQueue implements this module.                             *)
(***************************************************************************)
EXTENDS Naturals, FiniteSets

CONSTANTS
  Packets,    \* records with an id and a release_at
  BatchSize,  \* the most packets given away in one call
  Horizon     \* bound of the clock

VARIABLES
  now,        \* the clock
  held,       \* the packets accepted and not yet given to WinDivert
  phase       \* "open", "closing" while it is emptied, "closed"

vars == <<now, held, phase>>

Init == now = 0 /\ held = {} /\ phase = "open"

\* A packet may be due already when it is accepted.
Accept(p) ==
  /\ phase = "open"
  /\ \A h \in held : h.id # p.id
  /\ held' = held \cup {p}
  /\ UNCHANGED <<now, phase>>

\* A batch leaves: at least one packet, all of them due.
Release(batch) ==
  /\ phase = "open"
  /\ batch # {}
  /\ Cardinality(batch) <= BatchSize
  /\ \A p \in batch : p.release_at <= now
  /\ held' = held \ batch
  /\ UNCHANGED <<now, phase>>

Close == phase = "open" /\ phase' = "closing" /\ UNCHANGED <<now, held>>

\* Closing gives away what is left, due or not.
Flush(p) ==
  /\ phase = "closing"
  /\ held' = held \ {p}
  /\ UNCHANGED <<now, phase>>

Closed == phase = "closing" /\ held = {} /\ phase' = "closed" /\ UNCHANGED <<now, held>>

Tick == now < Horizon /\ now' = now + 1 /\ UNCHANGED <<held, phase>>

Next ==
  \/ \E p \in Packets : Accept(p)
  \/ \E batch \in SUBSET held : Release(batch)
  \/ \E p \in held : Flush(p)
  \/ Close \/ Closed \/ Tick

Spec == Init /\ [][Next]_vars
=============================================================================
