---------------------------- MODULE EffectEngine ----------------------------
(***************************************************************************)
(* core/PacketEffectEngine and EffectConfig.h, one direction: what happens *)
(* to the packets of the target.  The UI thread stores settings in relaxed *)
(* atomics, one at a time; the capture thread, for every packet, loads     *)
(* them one at a time (Snapshot) and then decides from that snapshot and   *)
(* the engine's own state (Process): drop, delay, copies, and the release  *)
(* times that keep the copies under the throttle.                          *)
(*                                                                         *)
(* Times are ticks; Second is the number of ticks a byte takes at rate 1.  *)
(* Rates of the random effects are halves: 0 never, 1 perhaps, 2 always.   *)
(***************************************************************************)
EXTENDS Integers, Sequences

CONSTANTS
  Lengths,        \* packet lengths
  Second,         \* 1'000'000'000: ticks in which rate 1 moves one byte
  Inputs,         \* for every setting the values the UI may set
  kMaxDelayJitterMs, kMaxThrottle, kMaxDuplicateCopies,
  kDefaultBurstDropLength, kMaxBurstDropLength,
  MaxPackets,     \* bound: packets processed
  MaxChanges,     \* bound: changes of settings
  Horizon         \* bound: the clock

Settings == {"delay", "jitter", "throttle", "burst_enabled", "burst_rate",
             "burst_length", "drop_rate", "duplicate_rate", "duplicate_count"}

ASSUME LengthsAssumption == Lengths \subseteq Nat \ {0}
ASSUME SecondAssumption == Second \in Nat \ {0}
ASSUME LimitsAssumption ==
  /\ kMaxDelayJitterMs \in Nat /\ kMaxThrottle \in Nat
  /\ kMaxBurstDropLength \in Nat \ {0} /\ kDefaultBurstDropLength \in 1 .. kMaxBurstDropLength
  /\ kMaxDuplicateCopies \in Nat \ {0}
ASSUME InputsAssumption ==
  /\ DOMAIN Inputs = Settings
  /\ Inputs["burst_enabled"] \subseteq BOOLEAN
  /\ \A s \in Settings \ {"burst_enabled"} : Inputs[s] \subseteq Int

VARIABLES
  now,          \* the time Process is given: the capture loop's clock reading
  config,       \* DirectionEffectConfig: the atomics, one field for each
  revision,     \* throttle_revision_
  ui_pc,        \* "idle", or "bump" between the two stores of SetThrottleKBytesPerSec
  changes,      \* settings changed so far
  capture_pc,   \* where the capture thread is in Process
  length,       \* the packet that is processed
  snapshot,     \* the settings loaded so far
  burst_packets_remaining, next_throttle_release_at, last_throttle_revision,
  set_rates,    \* history: the rate that every revision stands for
  log           \* history: what was decided for every packet

engine_vars == <<burst_packets_remaining, next_throttle_release_at, last_throttle_revision>>
vars == <<now, config, revision, ui_pc, changes, capture_pc, length, snapshot,
          engine_vars, set_rates, log>>

Larger(a, b) == IF a < b THEN b ELSE a
Clamp(v, lo, hi) == IF v < lo THEN lo ELSE IF hi < v THEN hi ELSE v

NoSettings == [delay |-> 0, jitter |-> 0, throttle |-> 0, burst_enabled |-> FALSE,
               burst_rate |-> 0, burst_length |-> kDefaultBurstDropLength, drop_rate |-> 0,
               duplicate_rate |-> 0, duplicate_count |-> 1]
NoSnapshot == [settings |-> NoSettings, revision |-> 0]

Init ==
  /\ now = 0
  /\ config = NoSettings
  /\ revision = 0
  /\ ui_pc = "idle"
  /\ changes = 0
  /\ capture_pc = "idle"
  /\ length = 0
  /\ snapshot = NoSnapshot
  /\ burst_packets_remaining = 0
  /\ next_throttle_release_at = 0
  /\ last_throttle_revision = 0
  /\ set_rates = << >>
  /\ log = << >>

-----------------------------------------------------------------------------
(* UI thread: the setters *)

\* Seeded fault: no value is clamped.
StoredAsGiven(s, v) == v

\* What a setter stores for the value it is given.
Stored(s, v) ==
  CASE s = "delay" -> Larger(v, 0)
    [] s = "jitter" -> Clamp(v, 0, kMaxDelayJitterMs)
    [] s = "throttle" -> Clamp(v, 0, kMaxThrottle)
    [] s = "burst_enabled" -> v
    [] s = "burst_length" -> Clamp(v, 1, kMaxBurstDropLength)
    [] s = "duplicate_count" -> Clamp(v, 1, kMaxDuplicateCopies)
    [] OTHER -> Clamp(v, 0, 2)

Set(s, v) ==
  /\ s # "throttle"
  /\ ui_pc = "idle"
  /\ changes < MaxChanges
  /\ Stored(s, v) # config[s]
  /\ config' = [config EXCEPT ![s] = Stored(s, v)]
  /\ changes' = changes + 1
  /\ UNCHANGED <<now, revision, ui_pc, capture_pc, length, snapshot, engine_vars, set_rates, log>>

\* SetThrottleKBytesPerSec: the rate is stored, and then the revision is bumped;
\* an unchanged rate does neither.
SetThrottle(v) ==
  /\ ui_pc = "idle"
  /\ changes < MaxChanges
  /\ Stored("throttle", v) # config["throttle"]
  /\ config' = [config EXCEPT !["throttle"] = Stored("throttle", v)]
  /\ ui_pc' = "bump"
  /\ changes' = changes + 1
  /\ UNCHANGED <<now, revision, capture_pc, length, snapshot, engine_vars, set_rates, log>>

SetThrottleBump ==
  /\ ui_pc = "bump"
  /\ revision' = revision + 1
  /\ ui_pc' = "idle"
  /\ set_rates' = Append(set_rates, config.throttle)
  /\ UNCHANGED <<now, config, changes, capture_pc, length, snapshot, engine_vars, log>>

-----------------------------------------------------------------------------
(* Capture thread: Snapshot *)

\* A packet arrives; the delay and the jitter are loaded.
Arrive(l) ==
  /\ capture_pc = "idle"
  /\ Len(log) < MaxPackets
  /\ length' = l
  /\ snapshot' = [snapshot EXCEPT !.settings.delay = config.delay,
                                  !.settings.jitter = config.jitter]
  /\ capture_pc' = "throttle"
  /\ UNCHANGED <<now, config, revision, ui_pc, changes, engine_vars, set_rates, log>>

LoadThrottle ==
  /\ capture_pc = "throttle"
  /\ snapshot' = [snapshot EXCEPT !.settings.throttle = config.throttle]
  /\ capture_pc' = "revision"
  /\ UNCHANGED <<now, config, revision, ui_pc, changes, length, engine_vars, set_rates, log>>

LoadRevision ==
  /\ capture_pc = "revision"
  /\ snapshot' = [snapshot EXCEPT !.revision = revision]
  /\ capture_pc' = "rest"
  /\ UNCHANGED <<now, config, revision, ui_pc, changes, length, engine_vars, set_rates, log>>

\* The settings that are used each on its own are loaded together.
LoadRest ==
  /\ capture_pc = "rest"
  /\ snapshot' = [snapshot EXCEPT !.settings =
       [config EXCEPT !.delay = snapshot.settings.delay,
                      !.jitter = snapshot.settings.jitter,
                      !.throttle = snapshot.settings.throttle]]
  /\ capture_pc' = "process"
  /\ UNCHANGED <<now, config, revision, ui_pc, changes, length, engine_vars, set_rates, log>>

-----------------------------------------------------------------------------
(* Capture thread: Process, from the snapshot *)

\* What ShouldApplyRate may draw.
Draws(rate) == CASE rate <= 0 -> {FALSE} [] rate >= 2 -> {TRUE} [] OTHER -> BOOLEAN

\* Seeded fault: the backlog survives a change of the throttle.
BacklogKept == next_throttle_release_at

\* ResetThrottleStateIfNeeded: a revision not seen before clears the backlog.
Backlog == IF snapshot.revision # last_throttle_revision THEN 0 ELSE next_throttle_release_at

\* The end of Process: the throttle state is stored, the decision is recorded.
Decided(backlog, outcome, base, releases) ==
  /\ capture_pc = "process"
  /\ last_throttle_revision' = snapshot.revision
  /\ next_throttle_release_at' = backlog
  /\ log' = Append(log, [at |-> now, length |-> length, snapshot |-> snapshot,
                         outcome |-> outcome, base |-> base, releases |-> releases])
  /\ capture_pc' = "idle"
  /\ length' = 0
  /\ snapshot' = NoSnapshot
  /\ UNCHANGED <<now, config, revision, ui_pc, changes, set_rates>>

Dropped(outcome) == Decided(Backlog, outcome, 0, << >>)

\* A burst that has started drops the packet.
BurstContinues ==
  /\ snapshot.settings.burst_enabled
  /\ burst_packets_remaining > 0
  /\ burst_packets_remaining' = burst_packets_remaining - 1
  /\ Dropped("burst")

\* Seeded fault: the packet that starts the burst is not counted.
BurstStartsOneMore ==
  /\ snapshot.settings.burst_enabled
  /\ burst_packets_remaining = 0
  /\ TRUE \in Draws(snapshot.settings.burst_rate)
  /\ burst_packets_remaining' = snapshot.settings.burst_length
  /\ Dropped("burst_start")

\* The packet that starts a burst is its first victim.
BurstStarts ==
  /\ snapshot.settings.burst_enabled
  /\ burst_packets_remaining = 0
  /\ TRUE \in Draws(snapshot.settings.burst_rate)
  /\ burst_packets_remaining' = snapshot.settings.burst_length - 1
  /\ Dropped("burst_start")

\* Random drops happen only with bursts switched off, which ends a burst.
RandomDrop ==
  /\ ~ snapshot.settings.burst_enabled
  /\ TRUE \in Draws(snapshot.settings.drop_rate)
  /\ burst_packets_remaining' = 0
  /\ Dropped("drop")

\* ShouldDropPacket returns false.
NotDropped ==
  IF snapshot.settings.burst_enabled
    THEN /\ burst_packets_remaining = 0
         /\ FALSE \in Draws(snapshot.settings.burst_rate)
    ELSE FALSE \in Draws(snapshot.settings.drop_rate)

\* The loads of the snapshot's duplicate settings decide the number of copies.
CopyCounts ==
  {IF hit /\ snapshot.settings.duplicate_count > 0
     THEN 1 + snapshot.settings.duplicate_count ELSE 1 :
   hit \in Draws(snapshot.settings.duplicate_rate)}

\* Seeded fault: the time is rounded down.
TransmissionTimeFloor(l, rate) ==
  IF l = 0 \/ rate = 0 THEN 0 ELSE Larger((l * Second) \div rate, 1)

\* Rounded up, and never nothing for a packet that takes time.
TransmissionTime(l, rate) ==
  IF l = 0 \/ rate = 0 THEN 0 ELSE Larger((l * Second + rate - 1) \div rate, 1)

\* EmitPacketCopies: when each of n copies is released.
Releases(n, base) ==
  LET settings == snapshot.settings
      start == Larger(now, Backlog)
      release[k \in 1 .. n] ==
        IF settings.throttle = 0 THEN base
        ELSE Larger(base, IF k = 1 THEN start
                          ELSE release[k - 1] + TransmissionTime(length, settings.throttle))
  IN  release

\* The packet is emitted; with a throttle its last copy pushes the backlog on.
Emit ==
  \E n \in CopyCounts, jitter \in 0 .. snapshot.settings.jitter :
    LET base == now + snapshot.settings.delay + jitter
        releases == Releases(n, base)
    IN  /\ NotDropped
        /\ burst_packets_remaining' = 0
        /\ Decided(IF snapshot.settings.throttle = 0 THEN Backlog
                   ELSE releases[n] + TransmissionTime(length, snapshot.settings.throttle),
                   "emit", base, releases)

Process == BurstContinues \/ BurstStarts \/ RandomDrop \/ Emit

-----------------------------------------------------------------------------
\* The clock is read once for a packet, before Process: it goes on between two.
Tick == capture_pc = "idle" /\ now < Horizon /\ now' = now + 1
        /\ UNCHANGED <<config, revision, ui_pc, changes, capture_pc, length, snapshot,
                       engine_vars, set_rates, log>>

\* The bounds are reached.
Done == /\ Len(log) = MaxPackets /\ changes = MaxChanges /\ ui_pc = "idle" /\ now = Horizon
        /\ UNCHANGED vars

Next ==
  \/ \E s \in Settings \ {"throttle"} : \E v \in Inputs[s] : Set(s, v)
  \/ \E v \in Inputs["throttle"] : SetThrottle(v)
  \/ SetThrottleBump
  \/ \E l \in Lengths : Arrive(l)
  \/ LoadThrottle \/ LoadRevision \/ LoadRest \/ Process \/ Tick \/ Done

Spec == Init /\ [][Next]_vars

-----------------------------------------------------------------------------
(* Properties *)

SettingsType ==
  [delay : Nat, jitter : 0 .. kMaxDelayJitterMs, throttle : 0 .. kMaxThrottle,
   burst_enabled : BOOLEAN, burst_rate : 0 .. 2, burst_length : 1 .. kMaxBurstDropLength,
   drop_rate : 0 .. 2, duplicate_rate : 0 .. 2, duplicate_count : 1 .. kMaxDuplicateCopies]

Decisions ==
  [at : Nat, length : Lengths, snapshot : [settings : SettingsType, revision : Nat],
   outcome : {"burst", "burst_start", "drop", "emit"}, base : Nat, releases : Seq(Nat)]

\* Every variable stays in its range.
TypeOK ==
  /\ now \in Nat
  /\ config \in SettingsType
  /\ revision \in Nat
  /\ ui_pc \in {"idle", "bump"}
  /\ changes \in Nat
  /\ capture_pc \in {"idle", "throttle", "revision", "rest", "process"}
  /\ length \in Lengths \cup {0} /\ (capture_pc # "idle" => length # 0)
  /\ snapshot \in [settings : SettingsType, revision : Nat]
  /\ burst_packets_remaining \in 0 .. kMaxBurstDropLength - 1
  /\ next_throttle_release_at \in Nat
  /\ last_throttle_revision \in Nat
  /\ log \in Seq(Decisions)

\* The packets from i to j were decided under one throttle setting.
OneSetting(i, j) ==
  \A k \in i .. j :
    /\ log[k].snapshot.revision = log[i].snapshot.revision
    /\ log[k].snapshot.settings.throttle = log[i].snapshot.settings.throttle

Copies(k) == Len(log[k].releases)
FirstRelease(k) == log[k].releases[1]
LastRelease(k) == log[k].releases[Copies(k)]
Emitted(k) == log[k].outcome = "emit"
Throttled(k) == log[k].snapshot.settings.throttle > 0

\* The bytes released for the first packets of a log, by their number.
BytesOf(l) ==
  LET bytes[k \in 0 .. Len(l)] ==
        IF k = 0 THEN 0 ELSE bytes[k - 1] + l[k].length * Len(l[k].releases)
  IN  bytes

\* What the packets from i to j released, all their copies counted.
Bytes(i, j) == BytesOf(log)[j] - BytesOf(log)[i - 1]

\* Under one throttle setting the bytes released over any stretch of packets,
\* all their copies counted, take at least the time the throttle allows them:
\* duplicates, jitter and pauses never let the target send faster.
ThrottleHolds ==
  \A i, j \in 1 .. Len(log) :
    (i <= j /\ Emitted(i) /\ Emitted(j) /\ OneSetting(i, j) /\ Throttled(i))
    => (Bytes(i, j) - log[j].length) * Second
         <= (LastRelease(j) - FirstRelease(i)) * log[i].snapshot.settings.throttle

\* The rate of packet k is the one its revision was set to.
Settled(k) ==
  LET r == log[k].snapshot.revision
  IN  log[k].snapshot.settings.throttle = IF r = 0 THEN 0 ELSE set_rates[r]

\* A packet is held back beyond its own delay only by one that was decided under
\* the same revision, with no other revision between them: changing the throttle
\* forgets the old backlog.  If even so their settings differ, a snapshot between
\* them took its rate and its revision from two settings.
BacklogEndsWithRevision ==
  \A j \in 1 .. Len(log) :
    Emitted(j) /\ FirstRelease(j) > log[j].base =>
      \E i \in 1 .. j - 1 :
        /\ Emitted(i)
        /\ \A k \in i .. j : log[k].snapshot.revision = log[j].snapshot.revision
        /\ OneSetting(i, j) \/ \E k \in i .. j : ~ Settled(k)

\* A packet that sees a throttle setting that is complete, rate and revision, is
\* held back only by packets paced at that rate: a new setting starts without
\* backlog (tests/PacketEffectEngineTest.cpp, ReEnablingThrottleClearsPreviousBacklog).
NewSettingHasNoBacklog ==
  \A j \in 1 .. Len(log) :
    Emitted(j) /\ Settled(j) /\ FirstRelease(j) > log[j].base =>
      \E i \in 1 .. j - 1 : Emitted(i) /\ OneSetting(i, j)

\* A burst drops exactly the number of packets that was set when it started,
\* whatever the length and the rate are set to meanwhile, unless a packet sees
\* bursts switched off; then no packet is dropped for that burst any more.
BurstsAreExact ==
  \A j \in 1 .. Len(log) :
    log[j].outcome = "burst" <=>
      \E i \in 1 .. j - 1 :
        /\ log[i].outcome = "burst_start"
        /\ j - i < log[i].snapshot.settings.burst_length
        /\ \A k \in i .. j : log[k].snapshot.settings.burst_enabled

-----------------------------------------------------------------------------
(* The inductive invariant: what the engine's own state says of the log *)

\* Packets that are dropped release nothing, others at least one copy.
ReleasesOK ==
  \A k \in 1 .. Len(log) : Emitted(k) <=> Copies(k) > 0

\* Revisions only grow, from what the engine has seen over what the snapshot has
\* loaded to what the UI thread has set.
RevisionsOK ==
  /\ \A i, j \in 1 .. Len(log) : i <= j => log[i].snapshot.revision <= log[j].snapshot.revision
  /\ last_throttle_revision <= revision
  /\ capture_pc \in {"rest", "process"} =>
       snapshot.revision \in last_throttle_revision .. revision

\* What held a packet back was decided under its revision.
BacklogIsOfRevision ==
  \A j \in 1 .. Len(log) :
    Emitted(j) /\ FirstRelease(j) > log[j].base =>
      \E i \in 1 .. j - 1 : Emitted(i) /\ log[i].snapshot.revision = log[j].snapshot.revision

\* The engine has seen the revision of the last packet.  A backlog under it is
\* an emitted packet's, and it is as long as all that was released under the
\* last packet's setting takes.
BacklogOK ==
  /\ log # << >> => log[Len(log)].snapshot.revision = last_throttle_revision
  /\ next_throttle_release_at > 0 =>
       \E i \in 1 .. Len(log) :
         Emitted(i) /\ log[i].snapshot.revision = last_throttle_revision
  /\ \A i \in 1 .. Len(log) :
       Emitted(i) /\ OneSetting(i, Len(log)) /\ Throttled(i) =>
         Bytes(i, Len(log)) * Second
           <= (next_throttle_release_at - FirstRelease(i)) * log[i].snapshot.settings.throttle

\* The burst that started with packet i goes on: so many packets are left.
BurstLeft(i) == log[i].snapshot.settings.burst_length - 1 - (Len(log) - i)
BurstIsOn(i) ==
  /\ log[i].outcome = "burst_start"
  /\ BurstLeft(i) >= 0
  /\ \A k \in i .. Len(log) : log[k].snapshot.settings.burst_enabled

\* The packets that are left of a burst are those that its length leaves.
BurstOK ==
  /\ burst_packets_remaining > 0 => \E i \in 1 .. Len(log) : BurstIsOn(i)
  /\ \A i \in 1 .. Len(log) : BurstIsOn(i) => burst_packets_remaining = BurstLeft(i)

\* The properties hold, and the engine's state is what the log makes it.
IInv == /\ TypeOK /\ ReleasesOK /\ RevisionsOK /\ BacklogOK /\ BurstOK
        /\ ThrottleHolds /\ BacklogIsOfRevision /\ BurstsAreExact
=============================================================================
