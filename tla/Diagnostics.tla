---------------------------- MODULE Diagnostics ----------------------------
(***************************************************************************)
(* core/Diagnostics: the ring of log entries, filled by any thread, and    *)
(* ui/DiagnosticsTab, which polls it.  An entry gets its number before the *)
(* lock is taken, so the ring need not be in the numbers' order, and the   *)
(* tab asks for what has a higher number than the last entry it was given. *)
(*                                                                         *)
(* An entry is its number.  Nothing in the program sets a sink, and the    *)
(* counters are plain atomics: both are left out.                          *)
(***************************************************************************)
EXTENDS Naturals, Sequences, SequencesExt

CONSTANTS
  Threads,        \* threads that log
  kRingCapacity,  \* entries the ring holds
  kLogPollBatch,  \* entries the tab takes at once
  MaxEntries      \* bound: entries that are ever logged

ASSUME CapacityAssumption == kRingCapacity \in Nat \ {0}
ASSUME BatchAssumption == kLogPollBatch \in Nat \ {0}
ASSUME EntriesAssumption == MaxEntries \in Nat

VARIABLES
  next_seq,     \* next_seq_
  entry,        \* the entry a thread is about to append; 0 if it is in no Log
  ring,         \* ring_, oldest first
  last_seen,    \* last_seen_seq_ of the tab
  log_view,     \* what the tab shows
  displayed,    \* history: all it ever showed, in order
  overtaken,    \* history: an entry was appended after one with a higher number
  outrun        \* history: more entries were new than the tab takes at once

diagnostics_vars == <<next_seq, entry, ring, last_seen, log_view, displayed, overtaken, outrun>>

Seqs == 1 .. MaxEntries

DiagnosticsInit ==
  /\ next_seq = 1
  /\ entry = [t \in Threads |-> 0]
  /\ ring = << >>
  /\ last_seen = 0
  /\ log_view = << >> /\ displayed = << >>
  /\ overtaken = FALSE /\ outrun = FALSE

-----------------------------------------------------------------------------
(* Log *)

TakeSeq(t) ==
  /\ entry[t] = 0
  /\ next_seq <= MaxEntries
  /\ entry' = [entry EXCEPT ![t] = next_seq]
  /\ next_seq' = next_seq + 1
  /\ UNCHANGED <<ring, last_seen, log_view, displayed, overtaken, outrun>>

\* Seeded fault: a full ring is not made to forget its oldest entry.
PushKeepsOldest(r, e) == Append(r, e)

Push(r, e) == Append(IF Len(r) >= kRingCapacity THEN Tail(r) ELSE r, e)

LogAppend(t) ==
  /\ entry[t] # 0
  /\ ring' = Push(ring, entry[t])
  /\ entry' = [entry EXCEPT ![t] = 0]
  /\ overtaken' = (overtaken \/ \E i \in 1 .. Len(ring) : ring[i] > entry[t])
  /\ UNCHANGED <<next_seq, last_seen, log_view, displayed, outrun>>

-----------------------------------------------------------------------------
(* SnapshotSince and the tab *)

\* Seeded fault: the entry the tab was given last counts as new.
NewEntriesFrom(since) ==
  LET old == {i \in 1 .. Len(ring) : ring[i] < since}
  IN  SubSeq(ring, Max(old \cup {0}) + 1, Len(ring))

\* The walk from the newest entry to the first that is not new.
NewEntries(since) ==
  LET old == {i \in 1 .. Len(ring) : ring[i] <= since}
  IN  SubSeq(ring, Max(old \cup {0}) + 1, Len(ring))

SnapshotSince(since) ==
  LET new == NewEntries(since)
  IN  SubSeq(new, IF Len(new) > kLogPollBatch THEN Len(new) - kLogPollBatch + 1 ELSE 1, Len(new))

\* Seeded fault: everything that was numbered counts as seen.
RefreshSeesAll ==
  LET entries == SnapshotSince(last_seen)
  IN  /\ entries # << >>
      /\ log_view' = log_view \o entries
      /\ displayed' = displayed \o entries
      /\ last_seen' = next_seq - 1
      /\ outrun' = (outrun \/ Len(NewEntries(last_seen)) > kLogPollBatch)
      /\ UNCHANGED <<next_seq, entry, ring, overtaken>>

\* Refresh, by the timer while the tab is visible.
Refresh ==
  LET entries == SnapshotSince(last_seen)
  IN  /\ entries # << >>
      /\ log_view' = log_view \o entries
      /\ displayed' = displayed \o entries
      /\ last_seen' = Last(entries)
      /\ outrun' = (outrun \/ Len(NewEntries(last_seen)) > kLogPollBatch)
      /\ UNCHANGED <<next_seq, entry, ring, overtaken>>

ClearLog ==
  /\ log_view' = << >>
  /\ UNCHANGED <<next_seq, entry, ring, last_seen, displayed, overtaken, outrun>>

DiagnosticsNext ==
  \/ \E t \in Threads : TakeSeq(t) \/ LogAppend(t)
  \/ Refresh \/ ClearLog

DiagnosticsSpec == DiagnosticsInit /\ [][DiagnosticsNext]_diagnostics_vars

-----------------------------------------------------------------------------
(* Properties *)

\* Every variable stays in its range; the ring is bounded.
DiagnosticsTypeOK ==
  /\ next_seq \in 1 .. MaxEntries + 1
  /\ entry \in [Threads -> Seqs \cup {0}]
  /\ ring \in Seq(Seqs) /\ Len(ring) <= kRingCapacity
  /\ last_seen \in Seqs \cup {0}
  /\ log_view \in Seq(Seqs) /\ displayed \in Seq(Seqs)
  /\ overtaken \in BOOLEAN /\ outrun \in BOOLEAN

\* The tab shows no entry twice (Diagnostics.h:93-94, DiagnosticsTab.cpp:219-220),
\* in whatever order the threads append and whether or not it was cleared.
NothingTwice == IsInjective(displayed)

\* An entry that is still in the ring when the tab has moved past its number
\* was shown, unless threads overtook each other in Log or the tab was outrun.
LostOnlyInRaces ==
  overtaken \/ outrun \/
    \A i \in 1 .. Len(ring) : ring[i] <= last_seen => Contains(displayed, ring[i])

\* Every entry has a number of its own, which it is given once.
Numbered ==
  /\ \A t \in Threads : entry[t] < next_seq
  /\ \A i \in 1 .. Len(ring) : ring[i] < next_seq
  /\ \A i \in 1 .. Len(displayed) : displayed[i] < next_seq
  /\ \A t, u \in Threads : t # u /\ entry[t] = entry[u] => entry[t] = 0
  /\ \A t \in Threads : entry[t] # 0 =>
       ~ Contains(ring, entry[t]) /\ ~ Contains(displayed, entry[t])
  /\ IsInjective(ring)

\* No entry that was shown stands behind the one the tab was given last.
ShownIsBehind ==
  \A i \in 1 .. Len(ring) :
    Contains(displayed, ring[i]) => \E k \in i .. Len(ring) : ring[k] = last_seen

\* Without a race in Log the ring is in the numbers' order, and the tab is not
\* ahead of it.
OrderedWithoutRaces ==
  overtaken \/
    /\ \A i, j \in 1 .. Len(ring) : i < j => ring[i] < ring[j]
    /\ last_seen = 0 \/ (ring # << >> /\ last_seen <= Last(ring))

\* The inductive invariant.
DiagnosticsInv ==
  /\ DiagnosticsTypeOK
  /\ Numbered
  /\ NothingTwice /\ ShownIsBehind
  /\ OrderedWithoutRaces /\ LostOnlyInRaces
=============================================================================
