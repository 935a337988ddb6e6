--------------------------- MODULE Pipeline_proofs ---------------------------
(***************************************************************************)
(* Proofs about Pipeline: for any processes, however many pipelines are    *)
(* started, and wherever a start fails or a thread dies, the pipeline is   *)
(* there as a whole or not at all, the interceptor never outlives the flow *)
(* tracker, and no process is targeted that the monitor does not check.    *)
(***************************************************************************)
EXTENDS Pipeline, SequenceTheorems, TLAPS

\* The invariant is the conjunction of these parts.
USE DEF StagesOK, WholeOrNothing, CaptureNeedsFlow, TargetIsWatched

\* Birth 0 is that of no process.
LEMMA NoBirths == 0 \in Births /\ NoProcesses \in [Pids -> Births]
<1>1. 0 \in Births
  BY BoundsAssumption DEF Births
<1>. QED BY <1>1 DEF NoProcesses

\* RefreshList leaves an enumeration that is under way alone or begins one.
LEMMA RefreshListTypes ==
  ASSUME TypeOK, RefreshList
  PROVE  in_flight' \in BOOLEAN /\ unread' \subseteq Pids /\ listing' \in [Pids -> Births]
BY NoBirths DEF RefreshList, TypeOK, list_vars

\* The identity of a listed process.
LEMMA ListedIdentity ==
  ASSUME NEW items \in [Pids -> Births], NEW p \in Pids, items[p] # 0
  PROVE  /\ ItemIdentity(p, items) \in Identities
         /\ ItemIdentity(p, items) # NoIdentity
         /\ ItemIdentity(p, items).pid = p
BY PidsAssumption DEF ItemIdentity, Identities, NoIdentity

\* What SelectItem and SelectNothing leave is consistent with the list they
\* are used with.
LEMMA ChoiceIsConsistent ==
  ASSUME NEW items \in [Pids -> Births],
         SelectNothing \/ \E p \in Pids : items[p] # 0 /\ SelectItem(p, items)
  PROVE  /\ selected' \in Pids \cup {NoPid} /\ target' \in Pids \cup {NoPid}
         /\ identity' \in Identities
         /\ TargetIsWatched'
         /\ selected' # NoPid => items[selected'] # 0
<1>1. CASE SelectNothing
  BY <1>1 DEF SelectNothing, Identities, NoIdentity
<1>2. ASSUME NEW p \in Pids, items[p] # 0, SelectItem(p, items)
      PROVE  /\ selected' = p /\ target' = p /\ identity' \in Identities
             /\ identity'.pid = p
  BY <1>2, ListedIdentity DEF SelectItem
<1>3. CASE \E p \in Pids : items[p] # 0 /\ SelectItem(p, items)
  BY <1>2, <1>3
<1>. QED BY <1>1, <1>3

\* The invariant while processes come and go.
LEMMA StepSystem ==
  ASSUME PartsInv, NEW p \in Pids, ProcessStarts(p) \/ ProcessExits(p)
  PROVE  PartsInv'
<1>1. births' \in Births /\ procs' \in [Pids -> Births]
  <2>1. births \in Births /\ procs \in [Pids -> Births]
    BY DEF PartsInv, TypeOK
  <2>2. CASE ProcessStarts(p)
    <3>1. births' \in Births
      BY <2>1, <2>2, BoundsAssumption DEF ProcessStarts, Births
    <3>. QED BY <2>1, <2>2, <3>1 DEF ProcessStarts
  <2>3. CASE ProcessExits(p)
    BY <2>1, <2>3, NoBirths DEF ProcessExits
  <2>. QED BY <2>2, <2>3
<1>. QED BY <1>1 DEF ProcessStarts, ProcessExits, PartsInv, TypeOK, choice_vars, list_vars,
                     timer_vars, thread_vars

\* The invariant while the processes are listed and selected.
LEMMA StepList ==
  ASSUME PartsInv,
         Worker \/ RefreshTimer \/ ProcessListReady \/ Deselect \/ \E p \in Pids : Select(p)
  PROVE  PartsInv'
<1>1. ASSUME NEW p \in Pids, Enumerate(p) PROVE PartsInv'
  BY <1>1 DEF Enumerate, PartsInv, TypeOK, system_vars, choice_vars, timer_vars, thread_vars
<1>2. CASE RefreshTimer
  <2>1. in_flight' \in BOOLEAN /\ unread' \subseteq Pids /\ listing' \in [Pids -> Births]
    BY <1>2, RefreshListTypes DEF RefreshTimer, PartsInv
  <2>. QED BY <1>2, <2>1 DEF RefreshTimer, PartsInv, TypeOK, system_vars, choice_vars, timer_vars,
                             thread_vars
<1>3. CASE ProcessListReady
  <2>1. listing \in [Pids -> Births] /\ selected \in Pids \cup {NoPid}
    BY DEF PartsInv, TypeOK
  <2>2. CASE selected = NoPid
    BY <1>3, <2>2 DEF ProcessListReady, PartsInv, TypeOK, system_vars, choice_vars, timer_vars,
                      thread_vars
  <2>3. CASE selected # NoPid
    <3>1. SelectNothing \/ \E p \in Pids : listing[p] # 0 /\ SelectItem(p, listing)
      BY <1>3, <2>1, <2>3 DEF ProcessListReady
    <3>2. /\ selected' \in Pids \cup {NoPid} /\ target' \in Pids \cup {NoPid}
          /\ identity' \in Identities
          /\ TargetIsWatched'
          /\ selected' # NoPid => listing[selected'] # 0
      BY <2>1, <3>1, ChoiceIsConsistent
    <3>. QED BY <1>3, <3>2 DEF ProcessListReady, PartsInv, TypeOK, system_vars, timer_vars,
                               thread_vars
  <2>. QED BY <2>2, <2>3
<1>4. CASE Deselect \/ \E p \in Pids : Select(p)
  <2>1. tree \in [Pids -> Births]
    BY DEF PartsInv, TypeOK
  <2>2. SelectNothing \/ \E p \in Pids : tree[p] # 0 /\ SelectItem(p, tree)
    BY <1>4 DEF Deselect, Select
  <2>3. /\ selected' \in Pids \cup {NoPid} /\ target' \in Pids \cup {NoPid}
        /\ identity' \in Identities
        /\ TargetIsWatched'
        /\ selected' # NoPid => tree[selected'] # 0
    BY <2>1, <2>2, ChoiceIsConsistent
  <2>. QED BY <1>4, <2>3 DEF Deselect, Select, PartsInv, TypeOK, system_vars, list_vars, timer_vars,
                             thread_vars
<1>. QED BY <1>1, <1>2, <1>3, <1>4 DEF Worker

\* The invariant while a pipeline is started, failing at any step.
LEMMA StepStart ==
  ASSUME PartsInv, StartRefused \/ BoxDismissed \/ StartBegins \/ Starting
  PROVE  PartsInv'
<1>1. CASE StartRefused
  <2>1. boxes' \in 0 .. MaxBoxes
    BY <1>1, BoundsAssumption DEF StartRefused, PartsInv, TypeOK
  <2>2. identity' = NoIdentity /\ identity' \in Identities /\ target' = identity'.pid
    BY <1>1 DEF StartRefused, Identities, NoIdentity
  <2>. QED BY <1>1, <2>1, <2>2 DEF StartRefused, PartsInv, TypeOK, system_vars, list_vars,
                                   timer_vars, thread_vars
<1>2. CASE StartBegins
  <2>1. /\ tree \in [Pids -> Births] /\ selected \in Pids /\ tree[selected] # 0
    BY <1>2 DEF StartBegins, PartsInv, TypeOK
  <2>2. /\ selected' \in Pids \cup {NoPid} /\ target' \in Pids \cup {NoPid}
        /\ identity' \in Identities
        /\ TargetIsWatched'
        /\ selected' # NoPid => tree[selected'] # 0
    BY <1>2, <2>1, ChoiceIsConsistent DEF StartBegins
  <2>3. chosen' \in Identities
    BY <1>2, <2>1, ListedIdentity DEF StartBegins
  <2>4. session' \in 0 .. MaxSessions /\ session' > 0
    BY <1>2, BoundsAssumption DEF StartBegins, PartsInv, TypeOK
  <2>. QED BY <1>2, <2>2, <2>3, <2>4 DEF StartBegins, PartsInv, TypeOK, system_vars, list_vars,
                                         timer_vars, thread_vars
<1>3. ASSUME NEW ok \in BOOLEAN, StartFlow(ok) PROVE PartsInv'
  BY <1>3 DEF StartFlow, PartsInv, TypeOK, system_vars, choice_vars, list_vars, timer_vars
<1>4. ASSUME NEW ok \in BOOLEAN, StartCapture(ok) PROVE PartsInv'
  BY <1>4 DEF StartCapture, PartsInv, TypeOK, system_vars, choice_vars, list_vars
<1>5. CASE BoxDismissed
  <2>1. in_flight' \in BOOLEAN /\ unread' \subseteq Pids /\ listing' \in [Pids -> Births]
    BY <1>5, RefreshListTypes DEF BoxDismissed, PartsInv
  <2>2. boxes' \in 0 .. MaxBoxes
    BY <1>5, BoundsAssumption DEF BoxDismissed, PartsInv, TypeOK
  <2>. QED BY <1>5, <2>1, <2>2 DEF BoxDismissed, PartsInv, TypeOK, system_vars, choice_vars,
                                   timer_vars, thread_vars
<1>. QED BY <1>1, <1>2, <1>3, <1>4, <1>5 DEF Starting

\* The invariant when a thread dies: there is a pipeline it belongs to.
LEMMA StepThreads ==
  ASSUME PartsInv, Threads
  PROVE  PartsInv'
<1>1. session \in 1 .. MaxSessions
  BY BoundsAssumption DEF Threads, FlowDies, CaptureDies, PartsInv, TypeOK
<1>2. Append(posted, session) \in Seq(1 .. MaxSessions)
  BY <1>1 DEF PartsInv, TypeOK
<1>3. CASE FlowDies
  BY <1>2, <1>3 DEF FlowDies, PartsInv, TypeOK, system_vars, choice_vars, list_vars, timer_vars
<1>4. CASE CaptureDies
  BY <1>2, <1>4 DEF CaptureDies, PartsInv, TypeOK, system_vars, choice_vars, list_vars, timer_vars
<1>. QED BY <1>3, <1>4 DEF Threads

\* The invariant while a pipeline is stopped, whatever stops it.
LEMMA StepStop ==
  ASSUME PartsInv, StopClicked \/ PipelineFatal \/ CheckSelectedProcess \/ Stopping
  PROVE  PartsInv'
<1>1. CASE StopClicked
  BY <1>1 DEF StopClicked, PartsInv, TypeOK, system_vars, choice_vars, list_vars, timer_vars,
              thread_vars
<1>2. CASE PipelineFatal
  <2>1. posted' \in Seq(1 .. MaxSessions)
    BY <1>2, HeadTailProperties DEF PipelineFatal, PartsInv, TypeOK
  <2>. QED BY <1>2, <2>1 DEF PipelineFatal, PartsInv, TypeOK, system_vars, choice_vars, list_vars,
                             timer_vars
<1>3. CASE CheckSelectedProcess
  <2>1. identity' = NoIdentity /\ identity' \in Identities /\ target' = identity'.pid
    BY <1>3 DEF CheckSelectedProcess, Identities, NoIdentity
  <2>. QED BY <1>3, <2>1 DEF CheckSelectedProcess, PartsInv, TypeOK, system_vars, list_vars,
                             timer_vars, thread_vars
<1>4. CASE StopCapture
  BY <1>4 DEF StopCapture, PartsInv, TypeOK, system_vars, choice_vars, list_vars, timer_vars
<1>5. CASE StopFlow
  <2>1. in_flight' \in BOOLEAN /\ unread' \subseteq Pids /\ listing' \in [Pids -> Births]
    BY <1>5, RefreshListTypes DEF StopFlow, PartsInv
  <2>. QED BY <1>5, <2>1 DEF StopFlow, PartsInv, TypeOK, system_vars, choice_vars
<1>. QED BY <1>1, <1>2, <1>3, <1>4, <1>5 DEF Stopping

-----------------------------------------------------------------------------
(* The events *)

\* An event that is posted is one more.
LEMMA PostedGrows ==
  ASSUME NEW n, posted \in Seq(1 .. MaxSessions), posted' = Append(posted, n)
  PROVE  Posted' = Posted \cup {n}
<1>1. /\ Len(posted') = Len(posted) + 1 /\ Len(posted) \in Nat
      /\ \A i \in 1 .. Len(posted) : posted'[i] = posted[i]
      /\ posted'[Len(posted) + 1] = n
  OBVIOUS
<1>2. 1 .. Len(posted) + 1 = (1 .. Len(posted)) \cup {Len(posted) + 1}
  BY <1>1
<1>. QED BY <1>1, <1>2 DEF Posted

\* An event that is handled is the first; no other goes.
LEMMA PostedIsHandled ==
  ASSUME posted \in Seq(1 .. MaxSessions), posted # << >>, posted' = Tail(posted)
  PROVE  /\ Posted' \subseteq Posted /\ Posted \subseteq Posted' \cup {Head(posted)}
         /\ Head(posted) \in Posted
<1>1. /\ Len(posted) \in Nat /\ Len(posted) > 0 /\ Len(posted') = Len(posted) - 1
      /\ \A i \in 1 .. Len(posted) - 1 : posted'[i] = posted[i + 1]
      /\ Head(posted) = posted[1]
  OBVIOUS
<1>2. ASSUME NEW i \in 1 .. Len(posted) - 1
      PROVE  posted'[i] = posted[i + 1] /\ i + 1 \in 1 .. Len(posted)
  BY <1>1
<1>3. ASSUME NEW i \in 1 .. Len(posted)
      PROVE  i = 1 \/ (i - 1 \in 1 .. Len(posted) - 1 /\ posted'[i - 1] = posted[i])
  BY <1>1
<1>4. 1 \in 1 .. Len(posted)
  BY <1>1
<1>5. Posted' = {posted'[i] : i \in 1 .. Len(posted) - 1}
  BY <1>1 DEF Posted
<1>6. Posted' \subseteq Posted
  BY <1>2, <1>5 DEF Posted
<1>7. Posted \subseteq Posted' \cup {Head(posted)}
  BY <1>1, <1>3, <1>5 DEF Posted
<1>8. Head(posted) \in Posted
  BY <1>1, <1>4 DEF Posted
<1>. QED BY <1>6, <1>7, <1>8

\* What EventsOK speaks of does not change when these variables do not.
LEMMA EventsStay ==
  ASSUME EventsOK, UNCHANGED <<posted, session, flow, capture, ui_pc, running>>
  PROVE  EventsOK'
BY DEF EventsOK, Posted

\* An event of a pipeline is posted by each of its threads that dies, and by
\* nobody else; a new pipeline has a new number.
LEMMA EventsStep ==
  ASSUME IInv, [Next]_vars
  PROVE  EventsOK'
<1>1. PartsInv /\ EventsOK /\ posted \in Seq(1 .. MaxSessions) /\ session \in Nat
  BY BoundsAssumption DEF IInv, PartsInv, TypeOK
<1>2. CASE FlowDies \/ CaptureDies
  <2>1. Posted' = Posted \cup {session}
    BY <1>1, <1>2, PostedGrows DEF FlowDies, CaptureDies
  <2>. QED BY <1>1, <1>2, <2>1 DEF FlowDies, CaptureDies, EventsOK
<1>3. CASE PipelineFatal
  <2>1. /\ Posted' \subseteq Posted /\ Posted \subseteq Posted' \cup {Head(posted)}
        /\ ui_pc = "loop" /\ UNCHANGED <<session, flow, capture, running>>
        /\ ui_pc' = IF running THEN "stop_capture" ELSE "loop"
    BY <1>1, <1>3, PostedIsHandled DEF PipelineFatal, choice_vars
  <2>2. ~ running => flow = "none" /\ capture = "none"
    BY <1>1, <2>1 DEF PartsInv
  <2>. QED BY <1>1, <2>1, <2>2 DEF EventsOK
<1>4. CASE StartBegins
  <2>1. UNCHANGED <<flow, capture>> /\ flow = "none" /\ capture = "none" /\ Posted' = Posted
    BY <1>1, <1>4 DEF StartBegins, thread_vars, PartsInv, Posted
  <2>2. session' = session + 1 /\ session' \notin Posted /\ \A n \in Posted : n <= session'
    <3>1. \A n \in Posted : n \in Nat
      BY <1>1, BoundsAssumption DEF Posted
    <3>2. session' = session + 1
      BY <1>4 DEF StartBegins
    <3>. QED BY <1>1, <3>1, <3>2 DEF EventsOK
  <2>. QED BY <2>1, <2>2 DEF EventsOK
<1>5. ASSUME NEW ok \in BOOLEAN, StartFlow(ok) PROVE EventsOK'
  <2>1. Posted' = Posted /\ session' = session
    BY <1>5 DEF StartFlow, Posted
  <2>2. session \notin Posted
    BY <1>1, <1>5 DEF StartFlow, EventsOK, PartsInv
  <2>3. flow' # "dead" /\ capture' # "dead"
    BY <1>1, <1>5 DEF StartFlow, PartsInv
  <2>. QED BY <1>1, <2>1, <2>2, <2>3 DEF EventsOK
<1>6. ASSUME NEW ok \in BOOLEAN, StartCapture(ok) PROVE EventsOK'
  <2>1. Posted' = Posted /\ session' = session
    BY <1>6 DEF StartCapture, Posted
  <2>2. session \in Posted <=> flow = "dead"
    BY <1>1, <1>6 DEF StartCapture, EventsOK, PartsInv
  <2>3. CASE ok
    BY <1>1, <1>6, <2>1, <2>2, <2>3 DEF StartCapture, EventsOK, PartsInv
  <2>4. CASE ~ ok
    BY <1>1, <1>6, <2>1, <2>2, <2>4 DEF StartCapture, EventsOK, PartsInv
  <2>. QED BY <2>3, <2>4
<1>7. CASE StopClicked \/ CheckSelectedProcess
  <2>1. /\ Posted' = Posted /\ UNCHANGED <<session, flow, capture, running>>
        /\ running /\ ui_pc = "loop" /\ ui_pc' = "stop_capture"
    BY <1>7 DEF StopClicked, CheckSelectedProcess, thread_vars, Posted
  <2>. QED BY <1>1, <2>1 DEF EventsOK
<1>8. CASE StopCapture
  <2>1. /\ Posted' = Posted /\ UNCHANGED <<session, flow, running>>
        /\ capture' = "none" /\ ui_pc' = "stop_flow"
    BY <1>8 DEF StopCapture, Posted
  <2>. QED BY <1>1, <2>1 DEF EventsOK
<1>9. CASE StopFlow
  <2>1. /\ Posted' = Posted /\ session' = session
        /\ flow' = "none" /\ capture' = "none" /\ ui_pc' = "loop" /\ ~ running'
    BY <1>1, <1>9 DEF StopFlow, PartsInv, Posted
  <2>. QED BY <1>1, <2>1 DEF EventsOK
<1>10. \/ FlowDies \/ CaptureDies \/ PipelineFatal \/ StartBegins \/ StopClicked
       \/ CheckSelectedProcess \/ StopCapture \/ StopFlow
       \/ \E ok \in BOOLEAN : StartFlow(ok) \/ StartCapture(ok)
       \/ UNCHANGED <<posted, session, flow, capture, ui_pc, running>>
  BY DEF Next, ProcessStarts, ProcessExits, Select, Worker, Enumerate, RefreshTimer,
         ProcessListReady, Deselect, StartRefused, BoxDismissed, Starting, Threads, Stopping,
         vars, thread_vars
<1>. QED BY <1>1, <1>2, <1>3, <1>4, <1>5, <1>6, <1>7, <1>8, <1>9, <1>10, EventsStay

-----------------------------------------------------------------------------
(* The inductive invariant, and what follows *)

\* In every reachable state the pipeline is whole, gone, or at a known stage of
\* a start or a stop, with the timers and the selection that belong to it, and
\* the death of a thread is reported.
THEOREM Invariance == Spec => []IInv
<1>1. Init => IInv
  <2>. SUFFICES ASSUME Init PROVE IInv
    OBVIOUS
  <2>1. identity \in Identities /\ chosen \in Identities /\ target = identity.pid
    BY DEF Init, NoIdentity, Identities
  <2>2. << >> \in Seq(1 .. MaxSessions) /\ 0 \in 0 .. MaxSessions /\ 0 \in 0 .. MaxBoxes
    BY BoundsAssumption
  <2>3. TypeOK
    BY <2>1, <2>2, NoBirths DEF Init, TypeOK
  <2>4. StagesOK /\ WholeOrNothing /\ CaptureNeedsFlow
    BY DEF Init
  <2>5. TargetIsWatched
    BY <2>1 DEF Init
  <2>6. EventsOK
    BY DEF Init, EventsOK, Posted
  <2>. QED BY <2>3, <2>4, <2>5, <2>6 DEF IInv, PartsInv
<1>2. IInv /\ [Next]_vars => IInv'
  <2>. SUFFICES ASSUME IInv, [Next]_vars PROVE IInv'
    OBVIOUS
  <2>1. EventsOK'
    BY EventsStep
  <2>2. PartsInv'
    <3>1. PartsInv
      BY DEF IInv
    <3>2. CASE UNCHANGED vars
      BY <3>1, <3>2 DEF vars, system_vars, choice_vars, list_vars, timer_vars, thread_vars,
                        PartsInv, TypeOK
    <3>. QED BY <3>1, <3>2, StepSystem, StepList, StepStart, StepThreads, StepStop DEF Next
  <2>. QED BY <2>1, <2>2 DEF IInv
<1>. QED BY <1>1, <1>2, PTL DEF Spec

\* Between two events of the UI thread the pipeline is whole or gone.
THEOREM PipelineIsWhole == Spec => []WholeOrNothing
<1>1. IInv => WholeOrNothing
  BY DEF IInv, PartsInv
<1>. QED BY <1>1, Invariance, PTL

\* The interceptor never outlives the flow tracker that it refers to.
THEOREM FlowOutlivesCapture == Spec => []CaptureNeedsFlow
<1>1. IInv => CaptureNeedsFlow
  BY DEF IInv, PartsInv
<1>. QED BY <1>1, Invariance, PTL

\* The process whose traffic is affected is the one that the monitor checks.
THEOREM NobodyElseIsTargeted == Spec => []TargetIsWatched
<1>1. IInv => TargetIsWatched
  BY DEF IInv, PartsInv
<1>. QED BY <1>1, Invariance, PTL

\* A pipeline's own fatal event is the last of a thread that died; one that finds
\* both threads alive was posted by an earlier pipeline.
THEOREM FatalIsDeadOrLate == Spec => OwnFatalMeansDead
<1>1. ASSUME IInv, [Next]_vars, posted' # posted, ui_pc = "loop", ui_pc' = "stop_capture",
             flow = "live", capture = "live"
      PROVE  Head(posted) < session
  <2>1. PipelineFatal
    BY <1>1 DEF Next, ProcessStarts, ProcessExits, Select, Worker, Enumerate, RefreshTimer,
                ProcessListReady, Deselect, StartRefused, BoxDismissed, StartBegins, Starting,
                StartFlow, StartCapture, Threads, FlowDies, CaptureDies, StopClicked,
                CheckSelectedProcess, Stopping, StopCapture, StopFlow, vars, thread_vars
  <2>2. /\ posted \in Seq(1 .. MaxSessions) /\ session \in Nat
        /\ EventsOK /\ running
    BY <1>1, <2>1, BoundsAssumption DEF IInv, PartsInv, TypeOK, PipelineFatal
  <2>3. Head(posted) \in Posted /\ Head(posted) \in Nat
    BY <2>1, <2>2, PostedIsHandled, BoundsAssumption DEF PipelineFatal
  <2>4. session \notin Posted
    BY <1>1, <2>2 DEF EventsOK
  <2>. QED BY <2>2, <2>3, <2>4 DEF EventsOK
<1>2. IInv /\ [Next]_vars => (/\ posted' # posted /\ ui_pc = "loop" /\ ui_pc' = "stop_capture"
                             /\ flow = "live" /\ capture = "live"
                             => Head(posted) < session)
  BY <1>1
<1>. QED BY <1>2, Invariance, PTL DEF Spec, OwnFatalMeansDead

\* While a pipeline runs only the user gives it another target, but for the lists
\* that were in flight or to be asked for by an open box when it started.
THEOREM ListsRunOut == Spec => TargetIsTheUsers
<1>1. ASSUME IInv, [Next]_vars, running, running'
      PROVE  /\ LateLists' <= LateLists
             /\ \/ identity' \in {identity, NoIdentity}
                \/ \E p \in Pids : Select(p)
                \/ LateLists' < LateLists
  <2>1. ~ refresh_on /\ in_flight \in BOOLEAN /\ boxes \in Nat
    BY <1>1, BoundsAssumption DEF IInv, PartsInv, TypeOK
  <2>2. CASE ProcessListReady
    BY <2>1, <2>2 DEF ProcessListReady, LateLists
  <2>3. CASE BoxDismissed
    BY <2>1, <2>3 DEF BoxDismissed, RefreshList, list_vars, choice_vars, LateLists
  <2>4. ProcessListReady \/ BoxDismissed \/ UNCHANGED <<in_flight, boxes>>
    BY <1>1, <2>1 DEF Next, ProcessStarts, ProcessExits, Select, Worker, Enumerate,
                RefreshTimer, Deselect, StartRefused, StartBegins, Starting, StartFlow,
                StartCapture, Threads, FlowDies, CaptureDies, StopClicked, PipelineFatal,
                CheckSelectedProcess, Stopping, StopCapture, StopFlow, vars, list_vars
  <2>5. ASSUME ~ ProcessListReady
        PROVE  identity' \in {identity, NoIdentity} \/ \E p \in Pids : Select(p)
    BY <1>1, <2>1, <2>5 DEF Next, ProcessStarts, ProcessExits, Worker, Enumerate, RefreshTimer,
                Deselect, SelectNothing, StartRefused, BoxDismissed, StartBegins, Starting,
                StartFlow, StartCapture, Threads, FlowDies, CaptureDies, StopClicked,
                PipelineFatal, CheckSelectedProcess, Stopping, StopCapture, StopFlow, vars,
                choice_vars
  <2>. QED BY <2>1, <2>2, <2>3, <2>4, <2>5 DEF LateLists
<1>2. IInv /\ [Next]_vars => (running /\ running' =>
                               /\ LateLists' <= LateLists
                               /\ \/ identity' \in {identity, NoIdentity}
                                  \/ \E p \in Pids : Select(p)
                                  \/ LateLists' < LateLists)
  BY <1>1
<1>. QED BY <1>2, Invariance, PTL DEF Spec, TargetIsTheUsers
=============================================================================
