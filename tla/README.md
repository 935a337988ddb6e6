# Scrambler in TLA+

Scrambler is a Windows program that makes the network bad for one process. It
diverts UDP/IPv4 packets with WinDivert, finds out which process each belongs
to, and delays, throttles, drops or duplicates those of the selected process;
every other packet goes back unchanged. This directory models its core and the
part of the window that drives it. The modules are translated from the sources
(`PROJECT.json`, "map", names the lines of each definition); TLC checks them on
small instances, and TLAPS proves what matters most for every size.

## The system

| Part | Thread | State | Operations |
|---|---|---|---|
| `core/PacketInterceptor` | UI: Start, Stop; capture: CaptureLoop | driver handle, `running_`, one batch | receive a batch, look up, apply effects, send the rest as a batch, push delayed packets |
| `core/DelayQueue` | capture: Push; drain: DrainLoop; UI: Start, Stop | pool of slots, two SPSC rings, a heap | Push, drain, flush |
| `core/PacketEffectEngine`, `EffectConfig` | UI sets, capture reads and decides | relaxed atomics; burst and throttle state of each direction | setters, Snapshot, Process |
| `EffectConfig.h: TargetPidSet` | UI writes, capture reads | a set under a mutex, a cached pid outside it | Add, Remove, Clear, SetSelectedPid, Contains |
| `core/FlowTracker` | tracking: TrackingLoop; capture: LookupPid | flow table, endpoint table | flow events, bootstrap, lookup with a scan of the system's table |
| `core/Diagnostics`, `ui/DiagnosticsTab` | all log, UI polls | counters, ring of entries, last number seen | Log, SnapshotSince, Refresh, ClearLog |
| `ui/MainWindow` | UI, with a worker that lists processes | the pipeline, selected identity, timers, the list | Start, Stop, fatal event, monitor, refresh, select |
| `ui/MainWindow`, effects | UI | sliders and checkboxes | moves, Asymmetric, custom copies, burst, hotkeys |
| `platform/ProcessEnumerator` | worker, UI | none | EnumerateProcesses, IsProcessIdentityCurrent |
| `ui/MainWindow`, process tree | UI | items, what is hidden, expanded and selected, the filter | rebuild, filter, select |
| `ui/HotkeyManager`, `HotkeyEdit` | UI, in low-level hooks | bindings, their copies in edits and settings, two hooks | SetBinding, InstallHooks, RemoveHooks, save, load, match |
| `ui/SoundPlayer`, `main.cpp` | UI | none to speak of | play a tone, start |

Who meets whom: the UI thread owns everything else and stops it by flag, driver
shutdown and join. The capture thread calls `LookupPid`, `Contains`, `Process`
and `Push` for each packet. It meets the drain thread in two single-producer
rings, the tracking thread under the flow tables' shared mutex, and the UI
thread in relaxed atomics and the target set. A thread that dies of a driver
error posts an event to the UI thread.

What is hard here, and what must hold of each part:

* **DelayQueue.** A slot travels between three threads through two rings, a heap
  and a batch, with no lock: it must always be in one place. A ring that is
  found full makes its producer spin, on the capture thread of all places.
  Packets must not leave early, out of order, twice, or be left behind at Stop.
* **TargetPidSet.** The fast path answers without the lock that the slow path
  needs; together they must still be a set.
* **EffectEngine.** A snapshot is loaded while the UI thread stores. The
  throttle's pace and backlog and the length of a burst are kept between packets
  and must not leak from one setting to the next.
* **CaptureLoop.** Every call of the driver may fail, in the middle of a batch.
  Packets must be accounted for and in order, failures tolerated as long as
  declared, and the handle closed last.
* **FlowTracker.** Two sources of truth, one late and one unlocked.
* **Pipeline.** Start may fail half way; processes exit and pids return; events,
  lists and clicks reach the UI thread in any order, some in the middle of a handler
  that shows a message box.
* **Diagnostics.** Numbers are given out before the lock.
* **EffectControls.** Qt calls a slot only if a value changes, so hidden widgets
  decide what reaches the engine.
* **ProcessTree.** All items are new after each refresh, parents are pids that may
  belong to somebody else by now, and the filter has to hold through both.
* **Hotkeys.** Two hooks that are installed together and fail apart, which the
  system may take away; three copies of each binding, one of them on disk and
  written value by value.

The hazards are listed with their lines in `PROJECT.json`, "hazards".

## Modules

| Module | Models | Proofs |
|---|---|---|
| `DelayQueue` | `DelayQueue.cpp`, `ScheduledPacketQueue.h` | `DelayQueue_proofs` |
| `DelayService` | what `DelayQueue` promises of packets: a set, accepted, released when due, flushed | |
| `DelayPool` | what `DelayQueue` promises of its slots, and what `CaptureLoop` relies on: how many are in use | |
| `TargetPidSet` | `EffectConfig.h`, TargetPidSet | `TargetPidSet_proofs` |
| `TargetSet` | the atomic set that it stands for | |
| `EffectEngine` | `EffectConfig.h` (one direction), `PacketEffectEngine.cpp` | `EffectEngine_proofs` |
| `CaptureLoop` | `PacketInterceptor.cpp`, `ClassifyRecvFailure` | `CaptureLoop_proofs` |
| `Pipeline` | `MainWindow.cpp`: pipeline, list, monitor | `Pipeline_proofs` |
| `FlowTracker` | `FlowTracker.cpp` | `FlowTracker_proofs` |
| `Diagnostics` | `Diagnostics.cpp`, `DiagnosticsTab.cpp`: the log | `Window_proofs` |
| `EffectControls` | `MainWindow.cpp`: the effect controls | `Hotkeys_proofs` |
| `Hotkeys` | `HotkeyManager.cpp`, `HotkeyEdit.h`, composed with `EffectControls` | `Hotkeys_proofs` |
| `ProcessTree` | `MainWindow.cpp`: the process tree, its filter and selection | `Window_proofs` |

How they compose: `DelayQueue` implements `DelayService` and `DelayPool`;
`CaptureLoop` keeps of the delay queue what `DelayPool` has of it, and is shown to
be one of `DelayPool`'s behaviours, so that neither refuses, returns or forgets a
slot when the other does not. `Hotkeys` extends `EffectControls`: a hotkey moves
the controls within the hook's callback. `Window_proofs` proves both of the
window's views, the log and the tree, which share nothing but facts about
numbers and sequences.

`MC...` modules hold what TLC alone needs: symmetry and sets of inputs. Each
specification also defines its *seeded faults*, operators that are marked so and
are never part of `Next`: each is one of the actions with a bug somebody could
have written, and `PROJECT.json`, "mutants", names the property that fails when it
takes the place of the action.

### How state and actions correspond to the code

**DelayQueue.** `memory_pool` is the array of slots; `free_queue` and
`handoff_queue` the two rings, as sequences of slots (an SPSC ring with one
producer and one consumer is a bounded queue; its front, push and pop are single
steps); `scheduled` the heap, as a set: `PopReady` takes a slot that nothing
precedes, and among equal times any. `Push` is cut at each access that another
thread can see: take a slot (`PushTake`), write it (`PushCopy`), hand it over
(`PushHandoff`); so is `DrainLoop`: flag, collect, clock, pop, send, recycle.
`Stop` clears the flag, joins, flushes the ring, then the heap, and returns. The
capture thread exits first, as `PacketInterceptor::Stop` sees to.

**TargetPidSet.** Writers lock, change `pids`, store `cached_pid`, unlock;
readers load the cache and lock only if it holds the sentinel. `pids` is what
the mutex protects, `target` the set as readers see it, which changes when the
cache is stored. `kNoCachedPid` is an ordinary pid as well, as in the code.

**EffectEngine.** `SetThrottle` stores the rate, `SetThrottleBump` its revision;
other setters are single stores. A packet loads the rate, the revision and the
rest (`LoadThrottle`, `LoadRevision`, `LoadRest`: no property tells the order of
the others apart) and is then processed in one step, for the engine's own state
belongs to the capture thread. Draws are choices. Times are ticks.

**CaptureLoop.** One action per outcome of a receive, per kind of packet, per
push and per batch; what the flow table, the target set and the effect engine
say of a packet is chosen freely. Of the delay queue the numbers of slots in use and
of slots that are on their way back are kept, as in `DelayPool`. `Stop` is in its
steps.

**DelayPool.** `delayed` is the number of slots that hold a packet, `returning`
those of the batch just sent that `DrainLoop` has not yet pushed to the free ring.
In `DelayQueue` the first is what is neither free nor returning: a slot leaves the
pool when `PushTake` takes it from the free ring.

**Pipeline.** A handler of the UI thread is one step, but Start and Stop are cut
between the two components, because the threads of one run while the other is
started or joined, and a refused start is cut at its message box: the box is an
event loop of its own, which serves timers, lists, fatal events and the toggle
hotkey before the handler goes on with `RefreshProcessList` (`StartRefused`,
`BoxDismissed`). `boxes` counts the handlers that wait so; they are nested, so the
last box is dismissed first, and all go on alike. While one is open the user
cannot select. Events are posted in order (`posted`), with the session they
belong to, which the code does not send along. `Enumerate` looks at one pid at a
time while processes come and go.

**FlowTracker.** The system's sockets and flows change on their own; the FLOW
layer queues an event for each flow that begins or ends; the tracking thread
applies the queue's head. `LookupPid` is cut where it holds no lock: after the
maps, after the scan. A flow between two local sockets is one flow for each of
them, with an owner each; the maps have one entry for both directions.

**Diagnostics.** `Log` is cut between the number and the lock.

**EffectControls.** A control is its three sliders; `SharedTo` and `DirectionsTo`
are `setValue` with all the slots it runs, or with none if the value is the same.

**Hotkeys.** `installed` is what the system calls, `handles` what the program knows
of; they differ only if a hook leaked or was taken away. `InstallHooks` is one step
for each set of hooks the system grants. `Press` computes what matches, `Trigger`
emits one of them after the other, on the UI thread, which does nothing else
meanwhile (`Free`), except that the toggle may end in the message box of a refused
start, where callbacks are served: their actions come before what is left of the
outer ones. The system may take a hook away whenever the UI thread could be busy. `Save` writes one value of the settings, `Restart` is a new
start of a program that was ended anywhere, in the middle of saving too.

**ProcessTree.** `processes` is the system, `parent` and `birth` the items of the
last list, by pid, where NoPid is above the items at the top. `Reached` is the one
walk behind the rest: `InTree` is what the widget reaches from NoPid, `Ancestors`
what the parents lead to; `FoundWithin` is the recursion of `FilterTreeItem` over
an item's children, by depth. `ProcessListReady` is the whole handler: build, select again,
expand again, scroll to the selection, filter. A text of the filter is the one item
it matches, or none is typed.

## What the runs show

Bounds are the CONSTANTS of each `.cfg`; those that only keep the state space
finite are marked "bound" where they are declared.

One run checks a component's invariants, action properties and liveness together.

| Run | Instance | Shows |
|---|---|---|
| `DelayQueue` | 3 slots, 3 packets, batches of 2, times 0 and 1 | The invariant that is proved, `IInv` here and in each row below; `PushNeverSpins`; `ReleaseOrder`: no packet leaves before one that was pushed earlier and is due earlier, although that may still be in the ring; that it all implements `DelayService` and `DelayPool`, so that a packet is refused only by a pool in full use, which gets slots back; accepted packets leave, Stop returns with nothing left |
| `TargetPidSet` | 2 writers, 2 readers, 3 pids, one of them the sentinel | `IInv`; `Linearizable` |
| `EffectEngine` | 3 packets, 3 changes, rates of 1 and 2, bursts of the default 2 and of 3 | `IInv`; packets are paced at the rate of their snapshots; a backlog ends with its revision of the throttle, and is of one setting unless a snapshot was torn; a burst drops exactly its length |
| `CaptureLoop` | 3 packets, batches of 2, 1 duplicate, 2 slots, 1 tolerated failure | `IInv`, with `HandleOutlivesUsers`; `CountersBalance`, `OnceInOrder`, `FatalOnlyWhenDead`; `UsesPool`; Stop returns, diverted packets are taken |
| `Pipeline` | 2 pids, 3 processes, 2 sessions, 1 message box at a time | The pipeline is whole or absent, in the order of its references, what is targeted is monitored, each death of a thread is reported and no event is of a pipeline whose threads live (`IInv`); a fatal event that finds both threads alive is an earlier pipeline's (`OwnFatalMeansDead`), and only the user retargets a running pipeline, but for one list in flight at Start and one for each box open then (`TargetIsTheUsers`); a dead pipeline and one whose target is gone are stopped; the list catches up |
| `FlowTracker` | 2 ports, 1 remote, 2 processes and System, 6 changes | Both directions alike, no rejected process in the maps, and the maps right about all that no waiting event is about to change (`IInv`); an owner of one of the two ends or unknown once caught up, unless a scan was overtaken |
| `Diagnostics` | 3 threads, ring of 3, polls of 2, 6 entries | Each entry numbered once (`DiagnosticsInv`); nothing shown twice; what is missed was overtaken, outrun or pushed out of the ring |
| `ProcessTree` | 3 pids, 4 processes | What is hidden is what the present text hides of the present items (`IInv`); who is missing from the tree has an ancestor younger than its child; what the filter hides matches nowhere below, what matches is revealed by typing; a refresh neither loses the selection nor puts it out of sight |
| `Hotkeys` | drop, duplicate and its count, 2 values; 2 actions, a key with and without modifier, 3 actions waiting | Hooks, bindings and controls stay consistent, no hook leaks (`IInv`); hotkeys are off only after a failure; what the edits show is bound, and stored but for the one being saved; what is shown applies: outbound always, inbound in asymmetric mode |

Why these bounds are enough: every container is driven over its limit (more
packets than a batch and as many as the pool, more entries than the ring and the
poll, more failures than are tolerated), every resource is reused at least once
(slots, pids, ports, sessions), a pid cycle of three takes three pids and a fourth
process, and each mutant, a bug of the kind the property is for, is found within
them. In `DelayQueue` all is pushed at time 0, so no packet is overdue when it is
pushed; the model allows it, and the proofs cover it, for any clock. One message
box shows each interleaving with the rest; the proof allows any number.
`CaptureLoop` starts once, for `StartPipeline` makes a new interceptor each time;
the proofs hold for any number of starts. One key is enough for `Hotkeys`, since
keyboard and mouse hook end in the same `CheckAndTrigger`; the proofs hold for any
keys and controls. Threads, processes and remotes are interchangeable where the
configuration declares symmetry; runs with liveness declare none.

`CHECK_DEADLOCK FALSE` is set for FlowTracker and Diagnostics only, where nothing
has to happen once the bounded changes or entries are used up. The other
specifications say by an action of their own (`Idle`, `Done`) where they may rest.

### Where the code does not do what is said of it

Three runs end in a counterexample; each states what a doc, comment or test says
(`PROJECT.json`, "findings").

| Run | What happens |
|---|---|
| `EffectEngine_torn` | Old rate with new revision: a backlog at the old rate delays the first packets of the new setting |
| `Pipeline_fatal` | The queued fatal event of a stopped pipeline stops the next one |
| `Pipeline_target` | A list in flight at Start moves a running pipeline to a process with the reused pid |

How far each goes is proved. Packets of two settings share a backlog only if a
snapshot between them was torn (`RevisionClearsBacklog`). A fatal event stops a
pipeline that is alive only if an earlier pipeline posted it (`FatalIsDeadOrLate`). A
list retargets a running pipeline only if it was in flight at Start or is asked for
when the box of a start refused before is dismissed; there is at most one of the
former and one for each box of the latter, and none comes on top while the pipeline
runs (`ListsRunOut`).

More are modelled as the code has them, and the properties state them as
exceptions or leave them out:

* a scan's result may overwrite what a FLOW event has just recorded
  (`FlowTracker`: the exception of `RightUnlessOvertaken`); a flow of the System
  process does not correct such an entry either, its event being ignored;
* between two local sockets both directions are attributed to the process whose
  entry was written last (`Claimants`);
* `Log` takes an entry's number before the lock, and `SnapshotSince` stops at the
  first entry that is not newer: with the ring 2, 3, 1 and 2 shown, 3 is not
  returned, although `Diagnostics.h:92` has all newer entries returned (`overtaken`
  in `LostOnlyInRaces`);
* a process whose parent's pid was reused by a descendant is in no tree, although
  `README.md:12` lets any running process be selected (`MissingOnlyByReuse`);
* after an installation of the hooks failed, no change of a binding tries again
  (`OffOnlyAfterFailure`);
* flows of the System process are never remembered and scan the table for each
  packet, although `Diagnostics.h:44` expects no scans once warm (`Insert`);
* packets of *other* processes that exceed the MTU are dropped, although
  `README.md:30` reinjects them (`LeaveAlone` in `CaptureLoop`);
* after Asymmetric is unchecked the inbound effect may keep its hidden value
  (`EffectControls`: why `EffectsAreShown` says nothing of inbound there).

### Fairness

Only what the operating system or Qt must schedule is fair, and only weakly: the
drain thread, the steps of a Push once begun, the steps of Stop once begun, the
clock, the capture loop while its calls return (`Progress`), the worker, the
UI thread's timers and posted events, and each of the two failures or
successes of a start. Nothing forces a packet to arrive, the user to do anything,
a process to exit, a driver call to fail or to succeed, or a listed process to
remain. Nobody has to
dismiss a message box: its event loop serves what the window's own does.
`StopTerminates` of the capture loop thus rests on the shutdown that
wakes a blocked receive, as the mutant without it shows.

## What is proved

Every invariant and every action property that a passing run checks is a theorem,
and so are the three refinements but for the liveness of `DelayPool`. They hold for
all values of the constants that satisfy the named ASSUMEs: positive capacity and
batch sizes, natural bounds, `NoId` no packet, the sentinel a pid, disjoint
threads, remote endpoints that are no ports, finitely many pids, and the like.

| Module | Theorems |
|---|---|
| `DelayQueue_proofs` | `Invariance` (IInv), `TypeCorrect`, `SlotsAreConserved`, `PushNeverBlocks`, `StopEmptiesTheQueue`, `OrderIsKept` (ReleaseOrder), `Refinement` (of `DelayService`), `PoolRefinement` (of `DelayPool`) |
| `EffectEngine_proofs` | `Invariance` (IInv), `ThrottleIsKept`, `RevisionClearsBacklog`, `BurstsDropTheirLength` |
| `CaptureLoop_proofs` | `Invariance` (IInv), `HandleIsClosedLast`, `PoolIsUsedWell`, `FatalMeansDead`, `CountersAlwaysBalance`, `OrderIsKept` (OnceInOrder) |
| `TargetPidSet_proofs` | `Invariance` (IInv), `CacheIsCoherent`, `IsLinearizable` |
| `Pipeline_proofs` | `Invariance` (IInv), `PipelineIsWhole`, `FlowOutlivesCapture`, `NobodyElseIsTargeted`, `FatalIsDeadOrLate` (OwnFatalMeansDead), `ListsRunOut` (TargetIsTheUsers) |
| `FlowTracker_proofs` | `Invariance` (IInv), `DirectionsAgree`, `CaughtUpIsRight` (RightUnlessOvertaken) |
| `Hotkeys_proofs` | `Invariance` (IInv), `HooksNeverLeak`, `HotkeysWork`, `EditsSurvive`, `ControlsTellTheTruth` (EffectsAreShown) |
| `Window_proofs` | `DiagnosticsInvariance`, `ShownOnce`, `LostInRaces`; `Invariance` (IInv of the tree), `MissingByReuse`, `HiddenAsFiltered`, `TextsReveal`, `SelectionKept` |

*DelayQueue.* `SlotConservation` alone is not inductive: whether a step moves a slot
or copies it depends on where the threads are. `SlotsInv` adds `ThreadsOK` (a
thread's locals belong to its position, and who has been joined), `BatchDue` (what
is in the batch is due by the drain thread's reading of the clock, which lags), and
`HeldIntact` (what is queued is a packet, and no packet twice). `PushNeverBlocks`
is then a counting argument: the slot in the pusher's hand is not in the ring, a
ring holds no slot twice, so it has at most `Capacity - 1` of the slots
(`RoomInQueue`). `Refinement` maps rings, heap and batch to the set of held
packets; taking, copying and moving slots are stutters, the handoff accepts,
sending releases, and `HeldIntact` makes that one packet each. `PoolRefinement`
counts: a ring that holds no slot twice is as long as the set of its slots is
large (`LenIsCardinality`), so what is free and what returns are at most all slots
(`RoomForBoth`). For `ReleaseOrder` the invariant is `OrderOK`: an earlier packet is
before the later one in the ring, is out of the ring if the later one is, and is due
no earlier than what is in the batch if it has stayed in the heap.

*EffectEngine.* The three properties speak of the log of decisions, the engine only
of its backlog and of what is left of a burst. `BacklogOK` and `BurstOK` say what the
one makes of the other: the backlog reaches at least as far as the bytes released
under the present setting need at its rate, and the packets left of a burst are its
length less those that followed it. Each packet appends one decision, so each
property is kept by comparing the last packet with all before it. `RevisionsOK` adds
that revisions only grow from packet to packet, which is what makes the packets
since the backlog began all of its revision (`RevisionsStep`); that they are of its
settings too takes whole snapshots, whence the exception in `BacklogEndsWithRevision`.

*CaptureLoop.* `ThreadsOK` says how far Stop has got against what is left of the
threads, the queue and the handle; with the types it is inductive, and the handle
is open at every use because each thread that uses it is joined, and the queue
flushed, at a stage before the handle is closed. `CountersBalance` needs no more
than that each step adds the same to both sides. Every step is a step of
`DelayPool` or none. `LineOK` has the packets in one line from the driver's queue to
what was sent: what waits is strictly increasing and behind all that is decided.

*Pipeline.* `StagesOK` is what `WholeOrNothing` lacks: what is there at each stage
between two events, for a handler that has begun, and that only a listed process
is selected, so that an identity is always one of a process. `EventsOK` relates the
queue of fatal events to the threads: a dead thread's event waits, or a stop is under
way; an event of this session is one of a dead thread, or its pipeline is being
taken down. It is the safe part of `DeadPipelineStops`: a pipeline whose thread died
never runs on without an event that will stop it. With it a late event is known by its
session (`OwnFatalMeansDead`), which the code does not send along. `TargetIsTheUsers`
counts the lists that may still come in (`LateLists`). The timer that asks for lists
is off while a pipeline runs, no start is refused then, and a dismissed box turns into
a list in flight: so there are never more of them, and each that comes in is one less.

*FlowTracker.* `MapsInv`: tuples are closed under reversal, which undoes itself,
because no remote endpoint is a port; `SetFlow` writes both directions, and what is
looked up is a tuple. That flows have sockets is needed for their events to name a
process. The rest relates the maps to the system through the queue of events: an
"established" event is still true unless its "deleted" event waits behind it
(`WaitingIsTrue`), and an entry of either map is right, empty, or about to be
changed by an event that waits (`FlowsAreRight`, `EndpointsAreRight`). Each step of
the system queues the event that excuses the maps; each step of the tracking
thread takes the oldest one and makes them right. A lookup may write what it read
before the flow changed hands, which is what `overtaken` records.

*Hotkeys.* `HooksInv`: the hooks are granted both or removed both, and
installation failed exactly if none is registered. `BindingsInv`: an edit changes
one binding of what was saved. `ControlsAgree`: a direction's effect that its own
slider does not show is the shared slider's, so that Qt, which runs no slot if the
value is the same, still runs the one that makes the difference good.

*Diagnostics.* `Numbered`: an entry's number is held by one thread, or is in the ring
once. `ShownIsBehind`: nothing that was shown stands behind the entry the tab was
given last, so what the next poll finds there is new. `OrderedWithoutRaces`: unless
threads overtook each other the ring is in order and the tab not ahead of it.

*ProcessTree.* `IInv` says that what is hidden is always what the present text hides
of the present items. The properties then are about the walks. `Reached` is
defined by a recursive function over the number of steps; what it adds up to is the
least set closed under a step (`ReachedIsLeast`), for a walk in a finite set grows
for at most as many steps as the set is large (`WalkEnds`). From this follow, for
any parents, circles included: who is under an item (`AncestorsAreAbove`), that the
recursion of `FilterTreeItem` finds an item exactly if something below it matches
(`FilterIsLeast`, `FoundIfSomethingMatches`), and that what leads to a match is
opened (`FoundIsOpened`). An item that is not in the tree has a parent that is not in it either; of
those that the parents lead to, the oldest has a parent younger than itself
(`MissingByReuse`).

*TargetPidSet.* `IInv` says that the mutex excludes, and that a cached pid is all
of the set that readers see. An update takes effect when the cache is stored; a
fast `Contains` when it loads the cache, a slow one at the lookup, where the lock
keeps writers out. `CacheOfCorrect` and `ChangedType` are the facts about the pure
operators.

Recursive functions (`Steps`, `FoundWithin`, `BytesOf`) and cardinalities call for
induction over numbers, and the library's rules for it take an operator as a
parameter, which the provers here cannot instantiate. The proofs take the least
counterexample in its place: a nonempty set of naturals has a least element.

Only model-checked, since liveness and ENABLED are out of this prover's reach:
`EventuallyReleased`, `StopTerminates` of both components, `DivertedIsTaken`,
`DeadPipelineStops`, `GoneTargetStops`, `ListCatchesUp`, and that `DelayPool`'s
slots come back (`ImplementsPool`).

## Not modelled

* The ring of `SPSCQueue` itself, with its cached indices and memory orders
  (vendored; used here as a queue).
* Memory orders in general: atomics are sequentially consistent, except that
  independent ones are loaded and stored one by one. A relaxed load that sees a
  store late is a load that happens earlier.
* Several sockets on one port, in FlowTracker.
* What Qt does with items that hang below each other in a circle: `addChild` is
  taken at its word, and they are reached from nowhere.
* The conversions between Qt's keys and Windows' keys in `HotkeyManager.cpp`, which
  nothing calls, and the names of keys in `HotkeyEdit.h`.
* Counters other than as `CountersBalance` counts, rate-limited logging, the
  cap on the lines of the log view, texts, layout, icons, sounds, settings other
  than hotkeys.
* Bytes of packets, checksums, hashing.

## Plan

Done: `DelayQueue` with `DelayService` and `DelayPool`, `TargetPidSet` with
`TargetSet`, `EffectEngine`, `CaptureLoop` over `DelayPool`, `Pipeline`,
`FlowTracker` with local traffic, `Diagnostics`, `EffectControls`, `ProcessTree`,
`Hotkeys`. Left:

1. `SpscRing`: the ring with its cached indices, shown to implement the bounded
   queue that `DelayQueue` uses.
2. An abstract owner map that `FlowTracker` implements up to the events in flight,
   and several sockets on a port.
3. The proof that with `SpscRing` for its rings `DelayQueue` still implements
   `DelayService`.
