------------------------------ MODULE Pipeline ------------------------------
(***************************************************************************)
(* ui/MainWindow: the life of the pipeline.  StartPipeline creates a       *)
(* FlowTracker and a PacketInterceptor, each with a thread of its own;     *)
(* StopPipeline destroys them.  A thread that dies of a driver error posts *)
(* an event that the UI thread handles later, in OnPipelineFatal.  The UI  *)
(* thread also lists the processes (a worker enumerates them), lets the    *)
(* user select one, and checks by a timer whether the selected process is  *)
(* still the one it was.                                                   *)
(*                                                                         *)
(* Posted events, timers and the user's clicks and hotkeys reach the UI    *)
(* thread in no fixed order.  A handler is one step, except that starting  *)
(* and stopping are cut where the threads can act in between, and that a   *)
(* refused start shows a message box: an event loop within the handler,    *)
(* which serves all but the window's own controls until it is dismissed.   *)
(***************************************************************************)
EXTENDS Naturals, Sequences

CONSTANTS
  Pids,          \* process identifiers; the system uses one again after an exit
  NoPid,
  MaxBirths,     \* bound: processes that ever start
  MaxSessions,   \* bound: pipelines that are ever started
  MaxBoxes       \* bound: message boxes open at a time

ASSUME PidsAssumption == NoPid \notin Pids
ASSUME BoundsAssumption == MaxBirths \in Nat /\ MaxSessions \in Nat /\ MaxBoxes \in Nat

Births == 0 .. MaxBirths             \* creation times; 0 is no process

NoIdentity == [pid |-> NoPid, created |-> 0]
Identities == [pid : Pids, created : Births \ {0}] \cup {NoIdentity}

VARIABLES
  births,        \* processes started so far
  procs,         \* the system: pid -> creation time of the process that has it
  tree,          \* process_tree_: pid -> creation time of the listed process
  selected,      \* the pid of the selected item
  identity,      \* selected_process_identity_
  target,        \* target_pids_: the selected pid, or none
  unread,        \* processes EnumerateProcesses has still to look at
  listing,       \* its result so far
  in_flight,     \* refresh_in_flight_
  refresh_on,    \* refresh_timer_ is active
  monitor_on,    \* target_monitor_timer_ is active
  running,       \* running_
  ui_pc,         \* where the UI thread is
  flow,          \* flow_tracker_: "none", its thread "live" or "dead"
  capture,       \* interceptor_, likewise
  boxes,         \* calls of StartPipeline that wait for their message box
  posted,        \* queued calls of OnPipelineFatal: the session that posted each
  session,       \* history: the number of the pipeline
  chosen         \* history: the identity with which it was started

list_vars == <<unread, listing, in_flight>>
choice_vars == <<selected, identity, target>>
system_vars == <<births, procs>>
timer_vars == <<refresh_on, monitor_on>>
thread_vars == <<flow, capture, posted>>
vars == <<system_vars, tree, choice_vars, list_vars, timer_vars, running, ui_pc,
          thread_vars, boxes, session, chosen>>

NoProcesses == [p \in Pids |-> 0]

\* MainWindow's constructor: the first enumeration is under way.
Init ==
  /\ births = 0
  /\ procs = NoProcesses /\ tree = NoProcesses /\ listing = NoProcesses
  /\ selected = NoPid /\ identity = NoIdentity /\ target = NoPid
  /\ unread = Pids /\ in_flight = TRUE
  /\ refresh_on = TRUE /\ monitor_on = FALSE
  /\ running = FALSE /\ ui_pc = "loop"
  /\ flow = "none" /\ capture = "none" /\ posted = << >> /\ boxes = 0
  /\ session = 0 /\ chosen = NoIdentity

-----------------------------------------------------------------------------
(* The system's processes *)

ProcessStarts(p) ==
  /\ procs[p] = 0
  /\ births < MaxBirths
  /\ births' = births + 1
  /\ procs' = [procs EXCEPT ![p] = births']
  /\ UNCHANGED <<tree, choice_vars, list_vars, timer_vars, running, ui_pc, thread_vars,
                 boxes, session, chosen>>

ProcessExits(p) ==
  /\ procs[p] # 0
  /\ procs' = [procs EXCEPT ![p] = 0]
  /\ UNCHANGED <<births, tree, choice_vars, list_vars, timer_vars, running, ui_pc,
                 thread_vars, boxes, session, chosen>>

\* IsProcessIdentityCurrent
Current(id) == id # NoIdentity /\ procs[id.pid] = id.created

-----------------------------------------------------------------------------
(* The process list *)

\* EnumerateProcesses, on a worker thread, looks at one process after another.
Enumerate(p) ==
  /\ p \in unread
  /\ unread' = unread \ {p}
  /\ listing' = [listing EXCEPT ![p] = procs[p]]
  /\ UNCHANGED <<system_vars, tree, choice_vars, in_flight, timer_vars, running, ui_pc,
                 thread_vars, boxes, session, chosen>>

\* RefreshProcessList: nothing while an enumeration is under way.
RefreshList ==
  IF in_flight
    THEN UNCHANGED list_vars
    ELSE in_flight' = TRUE /\ unread' = Pids /\ listing' = NoProcesses

RefreshTimer ==
  /\ ui_pc = "loop"
  /\ refresh_on
  /\ RefreshList
  /\ UNCHANGED <<system_vars, tree, choice_vars, timer_vars, running, ui_pc, thread_vars,
                 boxes, session, chosen>>

\* OnProcessSelectionChanged
ItemIdentity(p, items) == [pid |-> p, created |-> items[p]]
SelectItem(p, items) ==
  /\ selected' = p
  /\ identity' = ItemIdentity(p, items)
  /\ target' = p
SelectNothing == selected' = NoPid /\ identity' = NoIdentity /\ target' = NoPid

\* By the user, whom a message box keeps from the tree.
Select(p) ==
  /\ ui_pc = "loop" /\ boxes = 0
  /\ tree[p] # 0
  /\ SelectItem(p, tree)
  /\ UNCHANGED <<system_vars, tree, list_vars, timer_vars, running, ui_pc, thread_vars,
                 boxes, session, chosen>>

Deselect ==
  /\ ui_pc = "loop" /\ boxes = 0
  /\ selected # NoPid
  /\ SelectNothing
  /\ UNCHANGED <<system_vars, tree, list_vars, timer_vars, running, ui_pc, thread_vars,
                 boxes, session, chosen>>

\* Seeded fault: refresh_in_flight_ is not cleared.
ProcessListReadyStaysInFlight ==
  /\ ui_pc = "loop"
  /\ in_flight /\ unread = {}
  /\ tree' = listing
  /\ IF selected = NoPid THEN UNCHANGED choice_vars
     ELSE IF listing[selected] = 0 THEN SelectNothing
     ELSE SelectItem(selected, listing)
  /\ UNCHANGED <<system_vars, list_vars, timer_vars, running, ui_pc, thread_vars,
                 boxes, session, chosen>>

\* OnProcessListReady: clearing the tree deselects, then the item that has the
\* pid selected before is selected again.
ProcessListReady ==
  /\ ui_pc = "loop"
  /\ in_flight /\ unread = {}
  /\ in_flight' = FALSE
  /\ tree' = listing
  /\ IF selected = NoPid THEN UNCHANGED choice_vars
     ELSE IF listing[selected] = 0 THEN SelectNothing
     ELSE SelectItem(selected, listing)
  /\ UNCHANGED <<system_vars, unread, listing, timer_vars, running, ui_pc, thread_vars,
                 boxes, session, chosen>>

-----------------------------------------------------------------------------
(* Starting *)

\* StartPipeline with a selected process that is no longer there: it says so.  By
\* the toggle hotkey it may come to a second box while the first one is open.
\* (With nothing selected it says so in a box as well, but changes nothing.)
StartRefused ==
  /\ ui_pc = "loop"
  /\ ~ running
  /\ boxes < MaxBoxes
  /\ selected # NoPid
  /\ ~ Current(ItemIdentity(selected, tree))
  /\ identity' = NoIdentity /\ target' = NoPid
  /\ boxes' = boxes + 1
  /\ UNCHANGED <<system_vars, tree, selected, list_vars, timer_vars, running, ui_pc,
                 thread_vars, session, chosen>>

\* The user dismisses the box that was opened last, and its handler goes on,
\* whatever has happened meanwhile.
BoxDismissed ==
  /\ ui_pc = "loop"
  /\ boxes > 0
  /\ boxes' = boxes - 1
  /\ RefreshList
  /\ UNCHANGED <<system_vars, tree, choice_vars, timer_vars, running, ui_pc, thread_vars,
                 session, chosen>>

StartBegins ==
  /\ ui_pc = "loop"
  /\ ~ running
  /\ session < MaxSessions
  /\ selected # NoPid
  /\ Current(ItemIdentity(selected, tree))
  /\ SelectItem(selected, tree)
  /\ session' = session + 1
  /\ chosen' = ItemIdentity(selected, tree)
  /\ ui_pc' = "start_flow"
  /\ UNCHANGED <<system_vars, tree, list_vars, timer_vars, running, thread_vars, boxes>>

\* flow_tracker_->Start(); if the driver does not open the tracker goes again.
StartFlow(ok) ==
  /\ ui_pc = "start_flow"
  /\ flow' = IF ok THEN "live" ELSE "none"
  /\ ui_pc' = IF ok THEN "start_capture" ELSE "loop"
  /\ UNCHANGED <<system_vars, tree, choice_vars, list_vars, timer_vars, running, capture,
                 posted, boxes, session, chosen>>

\* Seeded fault: a failed start leaves the flow tracker.
StartCaptureLeavesFlow(ok) ==
  /\ ui_pc = "start_capture"
  /\ capture' = IF ok THEN "live" ELSE "none"
  /\ ui_pc' = "loop"
  /\ running' = ok
  /\ refresh_on' = ~ ok
  /\ monitor_on' = ok
  /\ UNCHANGED <<system_vars, tree, choice_vars, list_vars, flow, posted, boxes, session,
                 chosen>>

\* Seeded fault: the list is still refreshed while the pipeline runs.
StartCaptureKeepsRefreshing(ok) ==
  /\ ui_pc = "start_capture"
  /\ capture' = IF ok THEN "live" ELSE "none"
  /\ flow' = IF ok THEN flow ELSE "none"
  /\ ui_pc' = "loop"
  /\ running' = ok
  /\ refresh_on' = TRUE
  /\ monitor_on' = ok
  /\ UNCHANGED <<system_vars, tree, choice_vars, list_vars, posted, boxes, session, chosen>>

\* interceptor_->Start(); if that fails both go again, the tracker's thread is
\* joined.  Otherwise the pipeline runs and the timers change over.
StartCapture(ok) ==
  /\ ui_pc = "start_capture"
  /\ capture' = IF ok THEN "live" ELSE "none"
  /\ flow' = IF ok THEN flow ELSE "none"
  /\ ui_pc' = "loop"
  /\ running' = ok
  /\ refresh_on' = ~ ok
  /\ monitor_on' = ok
  /\ UNCHANGED <<system_vars, tree, choice_vars, list_vars, posted, boxes, session, chosen>>

-----------------------------------------------------------------------------
(* The threads of the pipeline: NotifyFatal posts, then the thread ends. *)

\* Seeded fault: an error after which the thread goes on is reported as fatal.
FlowReportsAndLives ==
  /\ flow = "live"
  /\ posted' = Append(posted, session)
  /\ UNCHANGED <<system_vars, tree, choice_vars, list_vars, timer_vars, running, ui_pc,
                 flow, capture, boxes, session, chosen>>

FlowDies ==
  /\ flow = "live"
  /\ flow' = "dead"
  /\ posted' = Append(posted, session)
  /\ UNCHANGED <<system_vars, tree, choice_vars, list_vars, timer_vars, running, ui_pc,
                 capture, boxes, session, chosen>>

\* Seeded fault: the interceptor has no fatal callback.
CaptureDiesSilently ==
  /\ capture = "live"
  /\ capture' = "dead"
  /\ UNCHANGED <<system_vars, tree, choice_vars, list_vars, timer_vars, running, ui_pc,
                 flow, posted, boxes, session, chosen>>

CaptureDies ==
  /\ capture = "live"
  /\ capture' = "dead"
  /\ posted' = Append(posted, session)
  /\ UNCHANGED <<system_vars, tree, choice_vars, list_vars, timer_vars, running, ui_pc,
                 flow, boxes, session, chosen>>

-----------------------------------------------------------------------------
(* Stopping *)

\* OnStartStopClicked, by the button or the hotkey, while running.
StopClicked ==
  /\ ui_pc = "loop"
  /\ running
  /\ ui_pc' = "stop_capture"
  /\ UNCHANGED <<system_vars, tree, choice_vars, list_vars, timer_vars, running,
                 thread_vars, boxes, session, chosen>>

\* OnPipelineFatal: an event that finds the pipeline stopped is ignored.
PipelineFatal ==
  /\ ui_pc = "loop"
  /\ posted # << >>
  /\ posted' = Tail(posted)
  /\ ui_pc' = IF running THEN "stop_capture" ELSE "loop"
  /\ UNCHANGED <<system_vars, tree, choice_vars, list_vars, timer_vars, running, flow,
                 capture, boxes, session, chosen>>

\* Seeded fault: only a process that exited is noticed, not one that was replaced.
CheckSelectedProcessExists ==
  /\ ui_pc = "loop"
  /\ monitor_on /\ running
  /\ ~ (identity # NoIdentity /\ procs[identity.pid] # 0)
  /\ identity' = NoIdentity /\ target' = NoPid
  /\ ui_pc' = "stop_capture"
  /\ UNCHANGED <<system_vars, tree, selected, list_vars, timer_vars, running, thread_vars,
                 boxes, session, chosen>>

\* CheckSelectedProcessIdentity: the target exited or was replaced.
CheckSelectedProcess ==
  /\ ui_pc = "loop"
  /\ monitor_on /\ running
  /\ ~ Current(identity)
  /\ identity' = NoIdentity /\ target' = NoPid
  /\ ui_pc' = "stop_capture"
  /\ UNCHANGED <<system_vars, tree, selected, list_vars, timer_vars, running, thread_vars,
                 boxes, session, chosen>>

\* interceptor_->Stop() and reset(): its threads are joined.
StopCapture ==
  /\ ui_pc = "stop_capture"
  /\ capture' = "none"
  /\ ui_pc' = "stop_flow"
  /\ UNCHANGED <<system_vars, tree, choice_vars, list_vars, timer_vars, running, flow,
                 posted, boxes, session, chosen>>

\* flow_tracker_->Stop() and reset(), and the rest of StopPipeline.
StopFlow ==
  /\ ui_pc = "stop_flow"
  /\ flow' = "none"
  /\ running' = FALSE
  /\ monitor_on' = FALSE /\ refresh_on' = TRUE
  /\ RefreshList
  /\ ui_pc' = "loop"
  /\ UNCHANGED <<system_vars, tree, choice_vars, capture, posted, boxes, session, chosen>>

-----------------------------------------------------------------------------
Worker == \E p \in Pids : Enumerate(p)
Threads == FlowDies \/ CaptureDies
Starting == \E ok \in BOOLEAN : StartFlow(ok) \/ StartCapture(ok)
Stopping == StopCapture \/ StopFlow

Next ==
  \/ \E p \in Pids : ProcessStarts(p) \/ ProcessExits(p) \/ Select(p)
  \/ Worker \/ RefreshTimer \/ ProcessListReady \/ Deselect
  \/ StartRefused \/ BoxDismissed \/ StartBegins \/ Starting
  \/ Threads
  \/ StopClicked \/ PipelineFatal \/ CheckSelectedProcess \/ Stopping

Spec == Init /\ [][Next]_vars

\* The event loop, that of a message box too, serves every source of events: the
\* timers, the posted calls and the worker's result.  The worker and a handler
\* that has begun go on.  The user does as they like and may leave a box open;
\* threads and processes may live for ever.
Fairness ==
  /\ WF_vars(Worker) /\ WF_vars(ProcessListReady) /\ WF_vars(RefreshTimer)
  /\ WF_vars(PipelineFatal) /\ WF_vars(CheckSelectedProcess)
  /\ WF_vars(Starting) /\ WF_vars(Stopping)

FairSpec == Spec /\ Fairness

-----------------------------------------------------------------------------
(* Properties *)

\* Every variable stays in its range.
TypeOK ==
  /\ births \in Births
  /\ procs \in [Pids -> Births] /\ tree \in [Pids -> Births] /\ listing \in [Pids -> Births]
  /\ selected \in Pids \cup {NoPid} /\ target \in Pids \cup {NoPid}
  /\ identity \in Identities /\ chosen \in Identities
  /\ unread \subseteq Pids
  /\ in_flight \in BOOLEAN /\ running \in BOOLEAN
  /\ refresh_on \in BOOLEAN /\ monitor_on \in BOOLEAN
  /\ ui_pc \in {"loop", "start_flow", "start_capture", "stop_capture", "stop_flow"}
  /\ flow \in {"none", "live", "dead"} /\ capture \in {"none", "live", "dead"}
  /\ boxes \in 0 .. MaxBoxes
  /\ posted \in Seq(1 .. MaxSessions)
  /\ session \in 0 .. MaxSessions

\* Between two events the pipeline is there as a whole or not at all, and the
\* right timer is on: the one that refreshes the list exactly while nothing runs,
\* the one that watches the target exactly while something does.
WholeOrNothing ==
  ui_pc = "loop" =>
    /\ running <=> flow # "none"
    /\ running <=> capture # "none"
    /\ running <=> monitor_on
    /\ running <=> ~ refresh_on

\* The interceptor holds a reference to the flow tracker: it never outlives it,
\* on any path of a start that fails or of a stop.
CaptureNeedsFlow == capture # "none" => flow # "none"

\* How far a start or a stop has got, and what belongs to a selection.
StagesOK ==
  /\ running <=> monitor_on
  /\ running <=> ~ refresh_on
  /\ ui_pc = "start_flow" => ~ running /\ flow = "none" /\ capture = "none"
  /\ ui_pc = "start_capture" => ~ running /\ flow # "none" /\ capture = "none"
  /\ ui_pc = "stop_capture" => running /\ flow # "none" /\ capture # "none"
  /\ ui_pc = "stop_flow" => running /\ flow # "none" /\ capture = "none"
  /\ flow # "none" \/ capture # "none" \/ ui_pc = "start_flow" => session > 0
  /\ selected # NoPid => tree[selected] # 0

\* The pid whose traffic is affected is the one of the identity that the monitor
\* checks, so no pid is targeted that nobody watches.
TargetIsWatched ==
  /\ target = identity.pid
  /\ identity # NoIdentity => selected = identity.pid

\* A thread that died is reported: its event waits, or the pipeline is being
\* stopped.  An event of this pipeline in turn is one of a thread that died; all
\* others were posted by earlier pipelines.
Posted == {posted[i] : i \in 1 .. Len(posted)}
EventsOK ==
  /\ \A n \in Posted : n <= session
  /\ flow = "dead" \/ capture = "dead" =>
       session \in Posted \/ ui_pc \in {"stop_capture", "stop_flow"}
  /\ session \in Posted =>
       \/ flow = "dead" \/ capture = "dead"
       \/ ui_pc = "stop_flow"
       \/ ui_pc = "loop" /\ ~ running

\* The inductive invariant: a start that fails at either step and a stop leave
\* the pipeline whole or gone, and no death of a thread goes unreported.
PartsInv == TypeOK /\ StagesOK /\ WholeOrNothing /\ CaptureNeedsFlow /\ TargetIsWatched
IInv == PartsInv /\ EventsOK

\* A fatal event stops a pipeline whose threads both live only if an earlier
\* pipeline posted it (OnPipelineFatal is not told by whom it was called).
OwnFatalMeansDead ==
  [][/\ posted' # posted /\ ui_pc = "loop" /\ ui_pc' = "stop_capture"
     /\ flow = "live" /\ capture = "live"
     => Head(posted) < session]_vars

\* The lists that may still come in although a pipeline runs: the one in flight,
\* and one for each box of a refused start that is still open.  While it runs there
\* are never more, and whatever the user did not select takes one of them to become
\* the target.
LateLists == boxes + (IF in_flight THEN 1 ELSE 0)
TargetIsTheUsers ==
  [][running /\ running' =>
       /\ LateLists' <= LateLists
       /\ \/ identity' \in {identity, NoIdentity}
          \/ \E p \in Pids : Select(p)
          \/ LateLists' < LateLists]_vars

\* A pipeline one of whose threads has died does not go on running.
DeadPipelineStops ==
  running /\ (flow = "dead" \/ capture = "dead") ~> ~ running

\* A pipeline whose target exited, or whose target's pid is used by another
\* process, is stopped, unless the target is changed meanwhile.
GoneTargetStops == running /\ ~ Current(identity) ~> ~ running \/ Current(identity)

\* Once the pipeline is stopped for good, the list shows the processes there are.
ListCatchesUp == <>[](ui_pc = "loop" /\ ~ running) => <>[](tree = procs)

\* What OnPipelineFatal is for (MainWindow.h:52-54): it tears a pipeline down
\* because that pipeline's thread died.
FatalStopsItsOwnPipeline ==
  [][posted' # posted /\ ui_pc = "loop" /\ ui_pc' = "stop_capture" =>
       Head(posted) = session]_vars

\* What the README promises of the target (README.md:12): the effects apply to
\* the process that was selected when the pipeline was started, or to nothing,
\* as long as the user selects no other.
RunningTargetIsChosen ==
  [][running /\ running' /\ identity = chosen /\ tree' # tree =>
       identity' \in {chosen, NoIdentity}]_vars
=============================================================================
