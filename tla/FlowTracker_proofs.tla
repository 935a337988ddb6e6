------------------------- MODULE FlowTracker_proofs -------------------------
(***************************************************************************)
(* Proofs about FlowTracker: for any ports, endpoints and processes, and   *)
(* however events and lookups interleave, both directions of a flow are    *)
(* attributed to the same process, and to none that IsNoisePid rejects.    *)
(***************************************************************************)
EXTENDS FlowTracker, SequenceTheorems, TLAPS

\* What the maps may hold.
Known == (Pids \ NoisePids) \cup {NoPid}

\* Reversing a tuple gives a tuple, and twice gives the tuple back.
LEMMA ReversedIsTuple ==
  ASSUME NEW t \in Tuples
  PROVE  Reversed(t) \in Tuples /\ Reversed(Reversed(t)) = t
<1>1. CASE t \in Outbound
  <2>1. PICK p \in Ports, q \in Remotes \cup Ports : t = <<p, q>> /\ p # q
    BY <1>1 DEF Outbound
  <2>2. Reversed(t) = <<q, p>> /\ Reversed(Reversed(t)) = t
    BY <2>1 DEF Reversed
  <2>. QED BY <2>1, <2>2 DEF Tuples, Outbound
<1>2. CASE t \in Remotes \X Ports
  <2>1. PICK r \in Remotes, p \in Ports : t = <<r, p>>
    BY <1>2
  <2>2. Reversed(t) = <<p, r>> /\ Reversed(Reversed(t)) = t
    BY <2>1 DEF Reversed
  <2>3. p # r
    BY <2>1, EndpointsAssumption
  <2>. QED BY <2>1, <2>2, <2>3 DEF Tuples, Outbound
<1>. QED BY <1>1, <1>2 DEF Tuples

\* The local end of a tuple is a port, and its flow is one the system sends.
LEMMA FlowIsOutbound ==
  ASSUME NEW t \in Tuples
  PROVE  Flow(t) \in Outbound /\ LocalPort(t) \in Ports
<1>1. Flow(t) \in Outbound
  <2>1. CASE t \in Outbound
    BY <2>1 DEF Flow
  <2>2. CASE t \in Remotes \X Ports /\ t \notin Outbound
    <3>1. PICK r \in Remotes, p \in Ports : t = <<r, p>>
      BY <2>2
    <3>2. Flow(t) = <<p, r>> /\ p # r
      BY <2>2, <3>1, EndpointsAssumption DEF Flow, Reversed
    <3>. QED BY <3>1, <3>2 DEF Outbound
  <2>. QED BY <2>1, <2>2 DEF Tuples
<1>2. PICK p \in Ports, q \in Remotes \cup Ports : Flow(t) = <<p, q>>
  BY <1>1 DEF Outbound
<1>. QED BY <1>1, <1>2 DEF LocalPort

\* InsertFlow's two writes keep the table symmetric.
LEMMA SetFlowIsSymmetric ==
  ASSUME flow_table \in [Tuples -> Known], BothWaysAlike,
         NEW t \in Tuples, NEW pid \in Known
  PROVE  LET table == SetFlow(flow_table, t, pid)
         IN  table \in [Tuples -> Known] /\ \A u \in Tuples : table[u] = table[Reversed(u)]
<1>. DEFINE table == SetFlow(flow_table, t, pid)
<1>1. Reversed(t) \in Tuples /\ Reversed(Reversed(t)) = t
  BY ReversedIsTuple
<1>2. table \in [Tuples -> Known]
  BY <1>1 DEF SetFlow
<1>3. ASSUME NEW u \in Tuples PROVE table[u] = table[Reversed(u)]
  <2>1. Reversed(u) \in Tuples /\ Reversed(Reversed(u)) = u
    BY ReversedIsTuple
  <2>2. CASE u = t \/ u = Reversed(t)
    BY <1>1, <2>2 DEF SetFlow
  <2>3. CASE u # t /\ u # Reversed(t)
    <3>1. Reversed(u) # t /\ Reversed(u) # Reversed(t)
      BY <1>1, <2>1, <2>3
    <3>2. table[u] = flow_table[u] /\ table[Reversed(u)] = flow_table[Reversed(u)]
      BY <2>1, <2>3, <3>1 DEF SetFlow
    <3>. QED BY <3>2 DEF BothWaysAlike
  <2>. QED BY <2>2, <2>3
<1>. QED BY <1>2, <1>3

\* What the system does is seen in the queue of events alone.
LEMMA StepChanges ==
  ASSUME MapsInv, NEW queued \in Seq(Events), Changes(queued)
  PROVE  /\ UNCHANGED <<phase, maps, lookup_vars, overtaken>>
         /\ changes' \in 0 .. MaxChanges
         /\ events' \in Seq(Events)
<1>1. changes' \in 0 .. MaxChanges
  BY ChangesAssumption DEF MapsInv, TypeOK, Changes
<1>2. events \o queued \in Seq(Events)
  BY DEF MapsInv, TypeOK
<1>. QED BY <1>1, <1>2 DEF MapsInv, TypeOK, Changes

\* An event is of the flow's owner.
LEMMA OwnerIsProcess ==
  ASSUME MapsInv, NEW f \in Outbound, socket[f[1]] # NoSocket
  PROVE  f[1] \in Ports /\ socket[f[1]].pid \in Pids
<1>1. f[1] \in Ports
  BY DEF Outbound
<1>. QED BY <1>1 DEF MapsInv, TypeOK, Sockets

\* The invariant when the system changes: sockets close after their flows.
LEMMA StepSystem ==
  ASSUME MapsInv, System
  PROVE  MapsInv'
<1>. SUFFICES ASSUME
         UNCHANGED <<phase, maps, lookup_vars, overtaken>>,
         changes' \in 0 .. MaxChanges, events' \in Seq(Events)
       PROVE  /\ socket' \in [Ports -> Sockets \cup {NoSocket}] /\ flows' \subseteq Outbound
              /\ \A f \in flows' : socket'[f[1]] # NoSocket
  <2>. DEFINE Moved == /\ UNCHANGED <<phase, maps, lookup_vars, overtaken>>
                       /\ changes' \in 0 .. MaxChanges
                       /\ events' \in Seq(Events)
  <2>0. << >> \in Seq(Events) /\ \A e \in Events : <<e>> \in Seq(Events)
    OBVIOUS
  <2>1. ASSUME NEW port \in Ports, Close(port) PROVE Moved
    <3>1. Changes(<< >>)
      BY <2>1 DEF Close
    <3>. QED BY <2>0, <3>1, StepChanges
  <2>2. ASSUME NEW port \in Ports, NEW s \in Sockets, Bind(port, s) PROVE Moved
    <3>1. Changes(<< >>)
      BY <2>2 DEF Bind
    <3>. QED BY <2>0, <3>1, StepChanges
  <2>3. ASSUME NEW f \in Outbound, Begin(f) PROVE Moved
    <3>. DEFINE e == [kind |-> "established", flow |-> f, pid |-> socket[f[1]].pid]
    <3>1. e \in Events
      BY <2>3, OwnerIsProcess DEF Begin, Events
    <3>2. Changes(<<e>>)
      BY <2>3 DEF Begin
    <3>3. <<e>> \in Seq(Events)
      BY <2>0, <3>1
    <3>. HIDE DEF e
    <3>. QED BY <3>2, <3>3, StepChanges
  <2>4. ASSUME NEW f \in Outbound, Expire(f) PROVE Moved
    <3>. DEFINE e == [kind |-> "deleted", flow |-> f, pid |-> socket[f[1]].pid]
    <3>1. socket[f[1]] # NoSocket
      BY <2>4 DEF Expire, MapsInv
    <3>2. e \in Events
      BY <3>1, OwnerIsProcess DEF Events
    <3>3. Changes(<<e>>)
      BY <2>4 DEF Expire
    <3>4. <<e>> \in Seq(Events)
      BY <2>0, <3>2
    <3>. HIDE DEF e
    <3>. QED BY <3>3, <3>4, StepChanges
  <2>5. Moved
    <3>. HIDE DEF Moved
    <3>. QED BY <2>1, <2>2, <2>3, <2>4 DEF System
  <2>. QED BY <2>5 DEF MapsInv, TypeOK, BothWaysAlike, maps, lookup_vars
<1>. SUFFICES ASSUME NEW f \in flows'
     PROVE  /\ socket' \in [Ports -> Sockets \cup {NoSocket}] /\ flows' \subseteq Outbound
            /\ socket'[f[1]] # NoSocket
  BY DEF System, Close, Bind, Begin, Expire, MapsInv, TypeOK
<1>1. ASSUME NEW port \in Ports, Close(port)
      PROVE  socket' \in [Ports -> Sockets \cup {NoSocket}] /\ flows' \subseteq Outbound
             /\ socket'[f[1]] # NoSocket
  BY <1>1 DEF Close, MapsInv, TypeOK
<1>2. ASSUME NEW port \in Ports, NEW s \in Sockets, Bind(port, s)
      PROVE  socket' \in [Ports -> Sockets \cup {NoSocket}] /\ flows' \subseteq Outbound
             /\ socket'[f[1]] # NoSocket
  BY <1>2 DEF Bind, MapsInv, TypeOK
<1>3. ASSUME NEW g \in Outbound, Begin(g) \/ Expire(g)
      PROVE  socket' \in [Ports -> Sockets \cup {NoSocket}] /\ flows' \subseteq Outbound
             /\ socket'[f[1]] # NoSocket
  BY <1>3 DEF Begin, Expire, MapsInv, TypeOK
<1>. QED BY <1>1, <1>2, <1>3 DEF System

-----------------------------------------------------------------------------
\* An applied event leaves the queue.
LEMMA StepApply ==
  ASSUME MapsInv, NEW kind \in {"established", "deleted"}, Apply(kind)
  PROVE  /\ Head(events) \in Events
         /\ events' \in Seq(Events) /\ overtaken' \subseteq Outbound
<1>1. Head(events) \in Events /\ Tail(events) \in Seq(Events)
  BY HeadTailProperties DEF Apply, MapsInv, TypeOK
<1>. QED BY <1>1 DEF Apply, MapsInv, TypeOK

\* The invariant when the tracking thread applies an event.
LEMMA StepTracking ==
  ASSUME MapsInv, FlowEstablished \/ FlowDeleted
  PROVE  MapsInv'
<1>. DEFINE e == Head(events)
<1>1. /\ e \in Events /\ events' \in Seq(Events) /\ overtaken' \subseteq Outbound
      /\ UNCHANGED <<system_vars, phase, lookup_vars>>
  BY StepApply DEF FlowEstablished, FlowDeleted, Apply
<1>2. e.flow \in Outbound /\ e.flow \in Tuples /\ e.flow[1] \in Ports /\ e.pid \in Pids
  BY <1>1 DEF Events, Tuples, Outbound
<1>3. flow_table \in [Tuples -> Known] /\ endpoint_to_pid \in [Addresses \X Ports -> Known]
      /\ BothWaysAlike
  BY DEF MapsInv, TypeOK, Known
<1>4. flow_table' \in [Tuples -> Known] /\ BothWaysAlike'
  <2>1. CASE FlowEstablished
    <3>1. CASE e.pid \in NoisePids
      BY <1>3, <2>1, <3>1 DEF FlowEstablished, maps, BothWaysAlike
    <3>2. CASE e.pid \notin NoisePids
      <4>1. flow_table' = SetFlow(flow_table, e.flow, e.pid) /\ e.pid \in Known
        BY <1>2, <2>1, <3>2 DEF FlowEstablished, Known
      <4>. QED BY <1>2, <1>3, <4>1, SetFlowIsSymmetric DEF BothWaysAlike
    <3>. QED BY <3>1, <3>2
  <2>2. CASE FlowDeleted
    <3>1. flow_table' = SetFlow(flow_table, e.flow, NoPid) /\ NoPid \in Known
      BY <2>2 DEF FlowDeleted, Known
    <3>. QED BY <1>2, <1>3, <3>1, SetFlowIsSymmetric DEF BothWaysAlike
  <2>. QED BY <2>1, <2>2
<1>5. endpoint_to_pid' \in [Addresses \X Ports -> Known]
  <2>1. CASE FlowEstablished
    BY <1>2, <1>3, <2>1 DEF FlowEstablished, maps, Known, Addresses
  <2>2. CASE FlowDeleted
    BY <1>2, <1>3, <2>2 DEF FlowDeleted, Known, Addresses
  <2>. QED BY <2>1, <2>2
<1>. QED BY <1>1, <1>4, <1>5 DEF MapsInv, TypeOK, Known, system_vars, lookup_vars

\* The invariant when the capture thread looks a packet up.
LEMMA StepLookup ==
  ASSUME MapsInv, (\E t \in Tuples : Lookup(t)) \/ (\E read \in BOOLEAN : Scan(read)) \/ Insert
  PROVE  MapsInv'
<1>1. ASSUME NEW t \in Tuples, Lookup(t) PROVE MapsInv'
  BY <1>1 DEF Lookup, MapsInv, TypeOK, BothWaysAlike, maps, system_vars, lookup_vars
<1>2. ASSUME NEW read \in BOOLEAN, Scan(read) PROVE MapsInv'
  <2>1. lookup \in Tuples
    BY <1>2 DEF Scan, MapsInv
  <2>2. LocalPort(lookup) \in Ports
    BY <2>1, FlowIsOutbound
  <2>3. socket[LocalPort(lookup)].pid \in Pids \cup {NoPid}
    BY <2>2 DEF MapsInv, TypeOK, Sockets, NoSocket
  <2>4. found' \in (Pids \ NoisePids) \cup {NoPid}
    BY <1>2, <2>3 DEF Scan
  <2>. QED BY <1>2, <2>4 DEF Scan, MapsInv, TypeOK, BothWaysAlike, maps, system_vars
<1>3. CASE Insert
  <2>1. lookup \in Tuples /\ found \in Known
    BY <1>3 DEF Insert, MapsInv, TypeOK, Known
  <2>2. flow_table \in [Tuples -> Known] /\ BothWaysAlike
    BY DEF MapsInv, TypeOK, Known
  <2>3. flow_table' \in [Tuples -> Known] /\ BothWaysAlike'
    <3>1. CASE found = NoPid
      BY <1>3, <2>2, <3>1 DEF Insert, BothWaysAlike
    <3>2. CASE found # NoPid
      BY <1>3, <2>1, <2>2, <3>2, SetFlowIsSymmetric DEF Insert, BothWaysAlike
    <3>. QED BY <3>1, <3>2
  <2>4. overtaken' \subseteq Outbound
    BY <1>3 DEF Insert, MapsInv, TypeOK
  <2>. QED BY <1>3, <2>3, <2>4 DEF Insert, MapsInv, TypeOK, Known, system_vars
<1>. QED BY <1>1, <1>2, <1>3

\* The invariant when the tracker is started, and when its thread ends.
LEMMA StepStart ==
  ASSUME MapsInv, Open \/ (\E read \in BOOLEAN : Bootstrap(read)) \/ TrackingEnds
  PROVE  MapsInv'
<1>1. CASE Open \/ TrackingEnds
  BY <1>1 DEF Open, TrackingEnds, MapsInv, TypeOK, BothWaysAlike, maps, system_vars, lookup_vars
<1>2. ASSUME NEW read \in BOOLEAN, Bootstrap(read) PROVE MapsInv'
  <2>1. endpoint_to_pid' \in [Addresses \X Ports -> (Pids \ NoisePids) \cup {NoPid}]
    <3>1. \A e \in Addresses \X Ports : socket[e[2]].pid \in Pids \cup {NoPid}
      BY DEF MapsInv, TypeOK, Sockets, NoSocket
    <3>. QED BY <1>2, <3>1 DEF Bootstrap
  <2>. QED BY <1>2, <2>1 DEF Bootstrap, MapsInv, TypeOK, BothWaysAlike, system_vars, lookup_vars
<1>. QED BY <1>1, <1>2

-----------------------------------------------------------------------------
(* What the maps know, against the events that still wait. *)

Followed == WaitingIsTrue /\ FlowsAreRight /\ EndpointsAreRight

\* Of two tuples each is the other's or the other way round.
LEMMA PairsAgree ==
  ASSUME NEW t \in Tuples, NEW u \in Tuples, u \in Pair(t)
  PROVE  t \in Pair(u) /\ Pair(t) = Pair(u)
<1>1. Reversed(Reversed(t)) = t
  BY ReversedIsTuple
<1>. QED BY <1>1 DEF Pair

\* The sender's direction of a tuple is one of the two.
LEMMA FlowIsInPair ==
  ASSUME NEW t \in Tuples
  PROVE  Flow(t) \in Pair(t)
BY DEF Flow, Pair

\* An event that is queued is the last, and takes none of the others away.
LEMMA EventQueued ==
  ASSUME events \in Seq(Events), NEW e \in Events, events' = events \o <<e>>
  PROVE  /\ Len(events') = Len(events) + 1 /\ Len(events) \in Nat
         /\ \A i \in 1 .. Len(events) : events'[i] = events[i]
         /\ events'[Len(events) + 1] = e
         /\ \A fs : Awaits(fs) \/ (Writes(e) /\ e.flow \in fs) => Awaits(fs)'
<1>1. /\ Len(events') = Len(events) + 1 /\ Len(events) \in Nat
      /\ \A i \in 1 .. Len(events) : events'[i] = events[i]
      /\ events'[Len(events) + 1] = e
  OBVIOUS
<1>2. ASSUME NEW fs, Awaits(fs) PROVE Awaits(fs)'
  <2>1. PICK i \in 1 .. Len(events) : Writes(events[i]) /\ events[i].flow \in fs
    BY <1>2 DEF Awaits
  <2>2. i \in 1 .. Len(events') /\ events'[i] = events[i]
    BY <1>1
  <2>. QED BY <2>1, <2>2 DEF Awaits, Writes
<1>3. ASSUME NEW fs, Writes(e), e.flow \in fs PROVE Awaits(fs)'
  <2>1. Len(events) + 1 \in 1 .. Len(events')
    BY <1>1
  <2>. QED BY <1>1, <1>3, <2>1 DEF Awaits, Writes
<1>. QED BY <1>1, <1>2, <1>3

\* An event that is applied was the first, and the others move up.
LEMMA EventTaken ==
  ASSUME events \in Seq(Events), events # << >>, events' = Tail(events)
  PROVE  /\ Len(events') = Len(events) - 1 /\ Len(events) \in Nat \ {0}
         /\ Head(events) = events[1]
         /\ \A i \in 1 .. Len(events') : events'[i] = events[i + 1]
         /\ \A fs : Awaits(fs) => Awaits(fs)' \/ (Writes(Head(events)) /\ Head(events).flow \in fs)
<1>1. /\ Len(events') = Len(events) - 1 /\ Len(events) \in Nat \ {0}
      /\ Head(events) = events[1]
      /\ \A i \in 1 .. Len(events') : events'[i] = events[i + 1]
  BY HeadTailProperties, EmptySeq
<1>2. ASSUME NEW fs, Awaits(fs), ~ (Writes(Head(events)) /\ Head(events).flow \in fs)
      PROVE  Awaits(fs)'
  <2>1. PICK i \in 1 .. Len(events) : Writes(events[i]) /\ events[i].flow \in fs
    BY <1>2 DEF Awaits
  <2>2. i # 1
    BY <1>1, <1>2, <2>1
  <2>3. i - 1 \in 1 .. Len(events') /\ events'[i - 1] = events[i]
    BY <1>1, <2>2
  <2>. QED BY <2>1, <2>3 DEF Awaits, Writes
<1>. QED BY <1>1, <1>2

\* What a port with flows belongs to does not change while the flows last.
LEMMA SocketsStay ==
  ASSUME IInv, Followed, UNCHANGED <<flows, events, maps, overtaken>>,
         \A f \in flows : Owner(f)' = Owner(f)
  PROVE  Followed'
<1>1. \A fs : Awaits(fs)' = Awaits(fs)
  BY DEF Awaits, Writes
<1>2. WaitingIsTrue'
  <2>. SUFFICES ASSUME NEW i \in 1 .. Len(events)
       PROVE  \/ events[i].kind = "deleted"
              \/ \E j \in i + 1 .. Len(events) :
                   events[j].kind = "deleted" /\ events[j].flow = events[i].flow
              \/ events[i].flow \in flows /\ events[i].pid = Owner(events[i].flow)'
    BY DEF WaitingIsTrue, Owner
  <2>. QED BY DEF Followed, WaitingIsTrue
<1>3. FlowsAreRight'
  <2>. SUFFICES ASSUME NEW f \in Outbound, f \notin overtaken, ~ Awaits(Pair(f)), flow_table[f] # NoPid
       PROVE  \E g \in Pair(f) \cap flows : flow_table[f] = Owner(g)'
    BY <1>1 DEF FlowsAreRight, maps, Owner, Pair
  <2>. QED BY DEF Followed, FlowsAreRight
<1>4. EndpointsAreRight'
  <2>. SUFFICES ASSUME NEW f \in flows, Owner(f) \notin NoisePids,
                       ~ Awaits({g \in Outbound : g[1] = f[1]})
       PROVE  Endpoint(f[1]) \in {NoPid, Owner(f)}
    BY <1>1 DEF EndpointsAreRight, maps, Endpoint
  <2>. QED BY DEF Followed, EndpointsAreRight
<1>. QED BY <1>2, <1>3, <1>4 DEF Followed

\* A flow that begins is queued with the process that has its socket now.
LEMMA StepBegin ==
  ASSUME IInv, Followed, NEW f \in Outbound, Begin(f), phase \in {"open", "running"}
  PROVE  Followed'
<1>. DEFINE e == [kind |-> "established", flow |-> f, pid |-> Owner(f)]
<1>1. e \in Events /\ events \in Seq(Events)
  BY OwnerIsProcess DEF Begin, IInv, MapsInv, TypeOK, Events, Owner
<1>2. /\ events' = events \o <<e>> /\ flows' = flows \cup {f}
      /\ UNCHANGED <<socket, maps, overtaken>>
  BY DEF Begin, Changes, Owner
<1>3. e.kind = "established" /\ e.flow = f /\ e.pid = Owner(f)
  OBVIOUS
<1>. HIDE DEF e
<1>4. /\ Len(events') = Len(events) + 1 /\ Len(events) \in Nat
      /\ \A i \in 1 .. Len(events) : events'[i] = events[i]
      /\ events'[Len(events) + 1] = e
  BY <1>1, <1>2, EventQueued
<1>5. \A fs : Awaits(fs) \/ (Writes(e) /\ f \in fs) => Awaits(fs)'
  BY <1>1, <1>2, <1>3, EventQueued
<1>6. \A g : Owner(g)' = Owner(g)
  BY <1>2 DEF Owner
<1>7. WaitingIsTrue'
  <2>. SUFFICES ASSUME NEW i \in 1 .. Len(events')
       PROVE  \/ events'[i].kind = "deleted"
              \/ \E j \in i + 1 .. Len(events') :
                   events'[j].kind = "deleted" /\ events'[j].flow = events'[i].flow
              \/ events'[i].flow \in flows' /\ events'[i].pid = Owner(events'[i].flow)
    BY <1>6 DEF WaitingIsTrue
  <2>1. CASE i = Len(events) + 1
    BY <1>2, <1>3, <1>4, <2>1
  <2>2. CASE i \in 1 .. Len(events)
    BY <1>2, <1>4, <2>2 DEF Followed, WaitingIsTrue
  <2>. QED BY <1>4, <2>1, <2>2
<1>8. FlowsAreRight'
  <2>. SUFFICES ASSUME NEW g \in Outbound, g \notin overtaken, ~ Awaits(Pair(g))', flow_table[g] # NoPid
       PROVE  \E h \in Pair(g) \cap flows' : flow_table[g] = Owner(h)'
    BY <1>2 DEF FlowsAreRight, maps, Pair
  <2>1. ~ Awaits(Pair(g))
    BY <1>5
  <2>. QED BY <1>2, <1>6, <2>1 DEF Followed, FlowsAreRight
<1>9. EndpointsAreRight'
  <2>. SUFFICES ASSUME NEW g \in flows', Owner(g) \notin NoisePids,
                       ~ Awaits({h \in Outbound : h[1] = g[1]})'
       PROVE  Endpoint(g[1]) \in {NoPid, Owner(g)}
    BY <1>2, <1>6 DEF EndpointsAreRight, maps, Endpoint
  <2>1. ~ Awaits({h \in Outbound : h[1] = g[1]})
        /\ ~ (Writes(e) /\ f \in {h \in Outbound : h[1] = g[1]})
    BY <1>5
  <2>2. g # f
    BY <1>3, <2>1 DEF Writes
  <2>. QED BY <1>2, <2>1, <2>2 DEF Followed, EndpointsAreRight
<1>. QED BY <1>7, <1>8, <1>9 DEF Followed

\* A flow that expires leaves a "deleted" event behind all that was queued of it.
LEMMA StepExpire ==
  ASSUME IInv, Followed, NEW f \in Outbound, Expire(f), phase \in {"open", "running"}
  PROVE  Followed'
<1>. DEFINE e == [kind |-> "deleted", flow |-> f, pid |-> Owner(f)]
<1>1. e \in Events /\ events \in Seq(Events)
  BY OwnerIsProcess DEF Expire, IInv, MapsInv, TypeOK, Events, Owner
<1>2. /\ events' = events \o <<e>> /\ flows' = flows \ {f}
      /\ UNCHANGED <<socket, maps, overtaken>>
  BY DEF Expire, Changes, Owner
<1>3. e.kind = "deleted" /\ e.flow = f
  OBVIOUS
<1>. HIDE DEF e
<1>4. /\ Len(events') = Len(events) + 1 /\ Len(events) \in Nat
      /\ \A i \in 1 .. Len(events) : events'[i] = events[i]
      /\ events'[Len(events) + 1] = e
  BY <1>1, <1>2, EventQueued
<1>5. \A fs : Awaits(fs) \/ f \in fs => Awaits(fs)'
  BY <1>1, <1>2, <1>3, EventQueued DEF Writes
<1>6. \A g : Owner(g)' = Owner(g)
  BY <1>2 DEF Owner
<1>7. WaitingIsTrue'
  <2>. SUFFICES ASSUME NEW i \in 1 .. Len(events')
       PROVE  \/ events'[i].kind = "deleted"
              \/ \E j \in i + 1 .. Len(events') :
                   events'[j].kind = "deleted" /\ events'[j].flow = events'[i].flow
              \/ events'[i].flow \in flows' /\ events'[i].pid = Owner(events'[i].flow)
    BY <1>6 DEF WaitingIsTrue
  <2>1. CASE i = Len(events) + 1
    BY <1>3, <1>4, <2>1
  <2>2. CASE i \in 1 .. Len(events) /\ events[i].flow = f
    <3>1. Len(events) + 1 \in i + 1 .. Len(events')
      BY <1>4, <2>2
    <3>. QED BY <1>3, <1>4, <2>2, <3>1
  <2>3. CASE i \in 1 .. Len(events) /\ events[i].flow # f
    BY <1>2, <1>4, <2>3 DEF Followed, WaitingIsTrue
  <2>. QED BY <1>4, <2>1, <2>2, <2>3
<1>8. FlowsAreRight'
  <2>. SUFFICES ASSUME NEW g \in Outbound, g \notin overtaken, ~ Awaits(Pair(g))', flow_table[g] # NoPid
       PROVE  \E h \in Pair(g) \cap flows' : flow_table[g] = Owner(h)'
    BY <1>2 DEF FlowsAreRight, maps, Pair
  <2>1. ~ Awaits(Pair(g)) /\ f \notin Pair(g)
    BY <1>5
  <2>. QED BY <1>2, <1>6, <2>1 DEF Followed, FlowsAreRight
<1>9. EndpointsAreRight'
  <2>. SUFFICES ASSUME NEW g \in flows', Owner(g) \notin NoisePids,
                       ~ Awaits({h \in Outbound : h[1] = g[1]})'
       PROVE  Endpoint(g[1]) \in {NoPid, Owner(g)}
    BY <1>2, <1>6 DEF EndpointsAreRight, maps, Endpoint
  <2>1. ~ Awaits({h \in Outbound : h[1] = g[1]})
    BY <1>5
  <2>. QED BY <1>2, <2>1 DEF Followed, EndpointsAreRight
<1>. QED BY <1>7, <1>8, <1>9 DEF Followed

\* Before Open the system changes unseen, and nothing is known yet.
LEMMA StepUnseen ==
  ASSUME IInv, phase = "off", UNCHANGED <<events, maps>>, flows' \subseteq Outbound
  PROVE  Followed'
<1>1. Len(events') = 0
  BY EmptySeq DEF IInv, NothingBeforeStart
<1>2. /\ \A t \in Tuples : flow_table'[t] = NoPid
      /\ \A p \in Ports : Endpoint(p)' = NoPid
  BY DEF IInv, NothingBeforeStart, maps, Endpoint, Addresses
<1>3. WaitingIsTrue' /\ FlowsAreRight'
  BY <1>1, <1>2 DEF WaitingIsTrue, FlowsAreRight, Tuples
<1>4. EndpointsAreRight'
  <2>. SUFFICES ASSUME NEW f \in flows' PROVE Endpoint(f[1])' = NoPid
    BY DEF EndpointsAreRight
  <2>1. f[1] \in Ports
    BY DEF Outbound
  <2>. QED BY <1>2, <2>1
<1>. QED BY <1>3, <1>4 DEF Followed

\* What the system does is followed by the events it queues.
LEMMA SystemIsFollowed ==
  ASSUME IInv, Followed, System, phase # "ended", flows' \subseteq Outbound
  PROVE  Followed'
<1>1. UNCHANGED <<maps, overtaken>> /\ events \in Seq(Events)
  BY DEF System, Close, Bind, Begin, Expire, Changes, IInv, MapsInv, TypeOK
<1>2. CASE phase = "off"
  <2>1. events' = events
    BY <1>2 DEF System, Close, Bind, Begin, Expire, Changes
  <2>. QED BY <1>1, <1>2, <2>1, StepUnseen
<1>3. CASE phase \in {"open", "running"}
  <2>1. ASSUME NEW port \in Ports, Close(port) \/ \E s \in Sockets : Bind(port, s) PROVE Followed'
    <3>1. events' = events \o << >> /\ UNCHANGED flows
      BY <1>3, <2>1 DEF Close, Bind, Changes
    <3>2. events' = events
      BY <1>1, <3>1
    <3>3. \A f \in flows : f[1] # port
      BY <2>1 DEF Close, Bind, IInv, MapsInv
    <3>4. \A f \in flows : Owner(f)' = Owner(f)
      <4>1. \A f \in flows : f[1] \in Ports
        BY DEF IInv, MapsInv, TypeOK, Outbound
      <4>2. \A p \in Ports \ {port} : socket'[p] = socket[p]
        BY <2>1 DEF Close, Bind, IInv, MapsInv, TypeOK
      <4>. QED BY <3>3, <4>1, <4>2 DEF Owner
    <3>. QED BY <1>1, <3>1, <3>2, <3>4, SocketsStay
  <2>. QED BY <1>3, <2>1, StepBegin, StepExpire DEF System
<1>4. phase \in {"off", "open", "running"}
  BY DEF IInv, MapsInv, TypeOK
<1>. QED BY <1>2, <1>3, <1>4

\* What waits after an event was applied; what it said is true, or a "deleted"
\* event of its flow is still to come.
LEMMA WaitingAfter ==
  ASSUME IInv, Followed, NEW kind \in {"established", "deleted"}, Apply(kind)
  PROVE  /\ WaitingIsTrue'
         /\ \/ Head(events).kind = "deleted"
            \/ \A fs : Head(events).flow \in fs => Awaits(fs)'
            \/ Head(events).flow \in flows /\ Head(events).pid = Owner(Head(events).flow)
<1>1. events \in Seq(Events) /\ events # << >> /\ events' = Tail(events) /\ UNCHANGED <<flows, socket>>
  BY DEF Apply, IInv, MapsInv, TypeOK, system_vars
<1>2. /\ Len(events') = Len(events) - 1 /\ Len(events) \in Nat \ {0}
      /\ Head(events) = events[1]
      /\ \A i \in 1 .. Len(events') : events'[i] = events[i + 1]
  BY <1>1, EventTaken
<1>3. ASSUME NEW i \in 1 .. Len(events), NEW j \in i + 1 .. Len(events),
             events[j].kind = "deleted", events[j].flow = events[i].flow
      PROVE  \E k \in 1 .. Len(events') :
               k \in i .. Len(events') /\ events'[k].kind = "deleted" /\ events'[k].flow = events[i].flow
  <2>1. j - 1 \in 1 .. Len(events') /\ j - 1 \in i .. Len(events') /\ events'[j - 1] = events[j]
    BY <1>2
  <2>. QED BY <1>3, <2>1
<1>4. WaitingIsTrue'
  <2>. SUFFICES ASSUME NEW i \in 1 .. Len(events')
       PROVE  \/ events'[i].kind = "deleted"
              \/ \E j \in i + 1 .. Len(events') :
                   events'[j].kind = "deleted" /\ events'[j].flow = events'[i].flow
              \/ events'[i].flow \in flows /\ events'[i].pid = Owner(events'[i].flow)
    BY <1>1 DEF WaitingIsTrue, Owner
  <2>1. i + 1 \in 1 .. Len(events) /\ events'[i] = events[i + 1]
    BY <1>2
  <2>2. CASE \E j \in i + 1 + 1 .. Len(events) :
               events[j].kind = "deleted" /\ events[j].flow = events[i + 1].flow
    <3>1. PICK k \in 1 .. Len(events') : k \in i + 1 .. Len(events')
                /\ events'[k].kind = "deleted" /\ events'[k].flow = events[i + 1].flow
      BY <1>3, <2>1, <2>2
    <3>. QED BY <2>1, <3>1
  <2>3. CASE ~ \E j \in i + 1 + 1 .. Len(events) :
               events[j].kind = "deleted" /\ events[j].flow = events[i + 1].flow
    BY <2>1, <2>3 DEF Followed, WaitingIsTrue
  <2>. QED BY <2>2, <2>3
<1>5. CASE \E j \in 1 + 1 .. Len(events) :
             events[j].kind = "deleted" /\ events[j].flow = events[1].flow
  <2>1. 1 \in 1 .. Len(events)
    BY <1>2
  <2>2. PICK k \in 1 .. Len(events') : events'[k].kind = "deleted" /\ events'[k].flow = events[1].flow
    BY <1>3, <1>5, <2>1
  <2>. QED BY <1>2, <1>4, <2>2 DEF Awaits, Writes
<1>6. CASE ~ \E j \in 1 + 1 .. Len(events) :
             events[j].kind = "deleted" /\ events[j].flow = events[1].flow
  <2>1. 1 \in 1 .. Len(events)
    BY <1>2
  <2>. QED BY <1>2, <1>4, <1>6, <2>1 DEF Followed, WaitingIsTrue
<1>. QED BY <1>5, <1>6

\* An applied event makes the maps say what it said.
LEMMA TrackingIsFollowed ==
  ASSUME IInv, Followed, FlowEstablished \/ FlowDeleted
  PROVE  Followed'
<1>. DEFINE e == Head(events)
<1>1. PICK kind \in {"established", "deleted"} : Apply(kind)
  BY DEF FlowEstablished, FlowDeleted
<1>2. /\ e \in Events /\ UNCHANGED <<socket, flows>>
      /\ events \in Seq(Events) /\ events # << >> /\ events' = Tail(events)
  BY <1>1, HeadTailProperties DEF Apply, IInv, MapsInv, TypeOK, system_vars
<1>3. e.flow \in Outbound /\ e.flow \in Tuples /\ e.flow[1] \in Ports
      /\ Reversed(e.flow) \in Tuples
  BY <1>2, ReversedIsTuple DEF Events, Tuples, Outbound
<1>4. /\ WaitingIsTrue'
      /\ \/ e.kind = "deleted"
         \/ \A fs : e.flow \in fs => Awaits(fs)'
         \/ e.flow \in flows /\ e.pid = Owner(e.flow)
  BY <1>1, WaitingAfter
<1>5. \A fs : Awaits(fs) => Awaits(fs)' \/ (Writes(e) /\ e.flow \in fs)
  BY <1>2, EventTaken
<1>6. \A g : Owner(g)' = Owner(g)
  BY <1>2 DEF Owner
<1>7. CASE ~ Writes(e)
  <2>1. UNCHANGED maps /\ UNCHANGED overtaken
    BY <1>7 DEF FlowEstablished, FlowDeleted, Apply, Writes
  <2>2. \A fs : Awaits(fs) => Awaits(fs)'
    BY <1>5, <1>7
  <2>3. FlowsAreRight'
    <3>. SUFFICES ASSUME NEW f \in Outbound, f \notin overtaken, ~ Awaits(Pair(f))', flow_table[f] # NoPid
         PROVE  \E g \in Pair(f) \cap flows : flow_table[f] = Owner(g)'
      BY <1>2, <2>1 DEF FlowsAreRight, maps, Pair
    <3>. QED BY <1>6, <2>2 DEF Followed, FlowsAreRight
  <2>4. EndpointsAreRight'
    <3>. SUFFICES ASSUME NEW f \in flows, Owner(f) \notin NoisePids,
                         ~ Awaits({g \in Outbound : g[1] = f[1]})'
         PROVE  Endpoint(f[1]) \in {NoPid, Owner(f)}
      BY <1>2, <1>6, <2>1 DEF EndpointsAreRight, maps, Endpoint
    <3>. QED BY <2>2 DEF Followed, EndpointsAreRight
  <2>. QED BY <1>4, <2>3, <2>4 DEF Followed
<1>8. CASE Writes(e)
  <2>. DEFINE pid == IF e.kind = "deleted" THEN NoPid ELSE e.pid
  <2>1. /\ flow_table' = SetFlow(flow_table, e.flow, pid)
        /\ overtaken' = overtaken \ Pair(e.flow)
    BY <1>8 DEF FlowEstablished, FlowDeleted, Apply, Writes, Pair
  <2>2. /\ \A t \in Pair(e.flow) : flow_table'[t] = pid
        /\ \A t \in Tuples \ Pair(e.flow) : flow_table'[t] = flow_table[t]
    BY <1>3, <2>1 DEF SetFlow, Pair, IInv, MapsInv, TypeOK
  <2>3. \A p \in Ports : Endpoint(p)' = IF p = e.flow[1] THEN pid ELSE Endpoint(p)
    <3>1. endpoint_to_pid \in [Addresses \X Ports -> (Pids \ NoisePids) \cup {NoPid}]
          /\ NoPid \notin Pids
      BY PidsAssumption DEF IInv, MapsInv, TypeOK
    <3>2. CASE e.kind = "deleted"
      <4>1. endpoint_to_pid' = [endpoint_to_pid EXCEPT ![<<"local", e.flow[1]>>] = NoPid,
                                                       ![<<"any", e.flow[1]>>] = NoPid]
        BY <3>2 DEF FlowEstablished, FlowDeleted, Apply
      <4>2. \A a \in Addresses, p \in Ports :
              endpoint_to_pid'[<<a, p>>] = IF p = e.flow[1] THEN NoPid ELSE endpoint_to_pid[<<a, p>>]
        BY <1>3, <3>1, <4>1 DEF Addresses
      <4>. QED BY <1>3, <3>2, <4>2 DEF Endpoint, Addresses
    <3>3. CASE e.kind = "established"
      <4>1. endpoint_to_pid' = [endpoint_to_pid EXCEPT ![<<"local", e.flow[1]>>] = e.pid]
        BY <1>8, <3>3 DEF FlowEstablished, FlowDeleted, Apply, Writes
      <4>2. e.pid \in Pids
        BY <1>2 DEF Events
      <4>3. /\ endpoint_to_pid'[<<"local", e.flow[1]>>] = e.pid /\ e.pid # NoPid /\ pid = e.pid
            /\ \A a \in Addresses, p \in Ports \ {e.flow[1]} :
                 endpoint_to_pid'[<<a, p>>] = endpoint_to_pid[<<a, p>>]
        BY <1>3, <3>1, <3>3, <4>1, <4>2 DEF Addresses
      <4>. QED BY <4>3 DEF Endpoint, Addresses
    <3>. QED BY <1>2, <3>2, <3>3 DEF Events
  <2>4. \/ pid = NoPid
        \/ \A fs : e.flow \in fs => Awaits(fs)'
        \/ e.flow \in flows /\ pid = Owner(e.flow)
    BY <1>4
  <2>. HIDE DEF pid
  <2>5. FlowsAreRight'
    <3>. SUFFICES ASSUME NEW f \in Outbound, f \notin overtaken', ~ Awaits(Pair(f))', flow_table'[f] # NoPid
         PROVE  \E g \in Pair(f) \cap flows : flow_table'[f] = Owner(g)
      BY <1>2, <1>6 DEF FlowsAreRight, Pair
    <3>1. f \in Tuples
      BY DEF Tuples
    <3>2. CASE f \in Pair(e.flow)
      <4>1. e.flow \in Pair(f)
        BY <1>3, <3>1, <3>2, PairsAgree
      <4>. QED BY <2>2, <2>4, <3>2, <4>1
    <3>3. CASE f \notin Pair(e.flow)
      <4>1. e.flow \notin Pair(f)
        BY <1>3, <3>1, <3>3, PairsAgree
      <4>2. ~ Awaits(Pair(f)) /\ f \notin overtaken
        BY <1>5, <2>1, <3>3, <4>1
      <4>. QED BY <2>2, <3>1, <3>3, <4>2 DEF Followed, FlowsAreRight
    <3>. QED BY <3>2, <3>3
  <2>6. EndpointsAreRight'
    <3>. SUFFICES ASSUME NEW f \in flows, Owner(f) \notin NoisePids,
                         ~ Awaits({g \in Outbound : g[1] = f[1]})'
         PROVE  Endpoint(f[1])' \in {NoPid, Owner(f)}
      BY <1>2, <1>6 DEF EndpointsAreRight
    <3>1. f[1] \in Ports
      BY DEF IInv, MapsInv, TypeOK, Outbound
    <3>2. CASE e.flow[1] = f[1]
      <4>1. e.flow \in {g \in Outbound : g[1] = f[1]}
        BY <1>3, <3>2
      <4>2. pid = NoPid \/ pid = Owner(e.flow)
        BY <2>4, <4>1
      <4>3. Owner(e.flow) = Owner(f)
        BY <3>2 DEF Owner
      <4>. QED BY <2>3, <3>1, <3>2, <4>2, <4>3
    <3>3. CASE e.flow[1] # f[1]
      <4>1. ~ Awaits({g \in Outbound : g[1] = f[1]})
        BY <1>5, <3>3
      <4>. QED BY <2>3, <3>1, <3>3, <4>1 DEF Followed, EndpointsAreRight
    <3>. QED BY <3>2, <3>3
  <2>. QED BY <1>4, <2>5, <2>6 DEF Followed
<1>. QED BY <1>7, <1>8

\* A lookup that writes what the system says now is right; any other is overtaken.
LEMMA InsertIsFollowed ==
  ASSUME IInv, Followed, Insert
  PROVE  Followed'
<1>1. lookup \in Tuples /\ flow_table \in [Tuples -> (Pids \ NoisePids) \cup {NoPid}]
      /\ Reversed(lookup) \in Tuples
  BY ReversedIsTuple DEF Insert, IInv, MapsInv, TypeOK
<1>2. UNCHANGED <<socket, flows, events, endpoint_to_pid>>
  BY DEF Insert, system_vars
<1>3. /\ \A fs : Awaits(fs)' = Awaits(fs)
      /\ \A g : Owner(g)' = Owner(g)
      /\ \A p : Endpoint(p)' = Endpoint(p)
  BY <1>2 DEF Awaits, Writes, Owner, Endpoint
<1>4. WaitingIsTrue'
  BY <1>2 DEF Followed, WaitingIsTrue, Owner
<1>5. EndpointsAreRight'
  <2>. SUFFICES ASSUME NEW f \in flows, Owner(f) \notin NoisePids,
                       ~ Awaits({g \in Outbound : g[1] = f[1]})
       PROVE  Endpoint(f[1]) \in {NoPid, Owner(f)}
    BY <1>2, <1>3 DEF EndpointsAreRight
  <2>. QED BY DEF Followed, EndpointsAreRight
<1>6. FlowsAreRight'
  <2>. SUFFICES ASSUME NEW f \in Outbound, f \notin overtaken', ~ Awaits(Pair(f)), flow_table'[f] # NoPid
       PROVE  \E g \in Pair(f) \cap flows : flow_table'[f] = Owner(g)
    BY <1>2, <1>3 DEF FlowsAreRight, Pair
  <2>1. f \in Tuples
    BY DEF Tuples
  <2>2. CASE found # NoPid /\ f \in Pair(lookup)
    <3>1. flow_table'[f] = found
      BY <1>1, <2>1, <2>2 DEF Insert, SetFlow, Pair
    <3>2. Flow(lookup) \in flows /\ Owner(Flow(lookup)) = found
      BY <2>2 DEF Insert, Pair, Owner, LocalPort
    <3>3. Flow(lookup) \in Pair(f)
      BY <1>1, <2>1, <2>2, FlowIsInPair, PairsAgree
    <3>. QED BY <3>1, <3>2, <3>3
  <2>3. CASE found = NoPid \/ f \notin Pair(lookup)
    <3>1. flow_table'[f] = flow_table[f] /\ f \notin overtaken
      BY <1>1, <2>1, <2>3 DEF Insert, SetFlow, Pair
    <3>. QED BY <3>1 DEF Followed, FlowsAreRight
  <2>. QED BY <2>2, <2>3
<1>. QED BY <1>4, <1>5, <1>6 DEF Followed

\* BootstrapFromSystem reads the sockets as they are.
LEMMA BootstrapIsFollowed ==
  ASSUME IInv, Followed, NEW read \in BOOLEAN, Bootstrap(read)
  PROVE  Followed'
<1>1. UNCHANGED <<socket, flows, events, flow_table, overtaken>>
  BY DEF Bootstrap, system_vars
<1>2. (\A fs : Awaits(fs)' = Awaits(fs)) /\ (\A g : Owner(g)' = Owner(g))
  BY <1>1 DEF Awaits, Writes, Owner
<1>3. WaitingIsTrue' /\ FlowsAreRight'
  BY <1>1 DEF Followed, WaitingIsTrue, FlowsAreRight, Awaits, Writes, Owner, Pair
<1>4. EndpointsAreRight'
  <2>. SUFFICES ASSUME NEW f \in flows PROVE Endpoint(f[1])' \in {NoPid, Owner(f)}
    BY <1>1, <1>2 DEF EndpointsAreRight
  <2>1. f[1] \in Ports
    BY DEF IInv, MapsInv, TypeOK, Outbound
  <2>2. \A a \in Addresses : endpoint_to_pid'[<<a, f[1]>>] \in {NoPid, socket[f[1]].pid}
    BY <2>1 DEF Bootstrap
  <2>. QED BY <2>2 DEF Endpoint, Owner, Addresses
<1>. QED BY <1>3, <1>4 DEF Followed

\* Nothing is known before BootstrapFromSystem.
LEMMA StepNothing ==
  ASSUME IInv, [Next]_vars
  PROVE  NothingBeforeStart'
<1>1. CASE System
  <2>1. UNCHANGED <<phase, maps, lookup_vars>> /\ (phase = "off" => events' = events)
    BY <1>1 DEF System, Close, Bind, Begin, Expire, Changes
  <2>. QED BY <2>1 DEF IInv, NothingBeforeStart, maps, lookup_vars
<1>2. CASE UNCHANGED vars \/ Open
  BY <1>2 DEF Open, vars, maps, lookup_vars, IInv, NothingBeforeStart
<1>3. CASE \/ \E read \in BOOLEAN : Bootstrap(read)
           \/ FlowEstablished \/ FlowDeleted \/ TrackingEnds
           \/ \E t \in Tuples : Lookup(t)
  BY <1>3 DEF Bootstrap, FlowEstablished, FlowDeleted, Apply, TrackingEnds, Lookup, NothingBeforeStart
<1>4. CASE (\E read \in BOOLEAN : Scan(read)) \/ Insert
  BY <1>4 DEF Scan, Insert, IInv, NothingBeforeStart
<1>. QED BY <1>1, <1>2, <1>3, <1>4 DEF Next

\* What the maps are like, whatever happens.
LEMMA StepMaps ==
  ASSUME MapsInv, [Next]_vars
  PROVE  MapsInv'
<1>1. CASE UNCHANGED vars
  BY <1>1 DEF vars, system_vars, maps, lookup_vars, MapsInv, TypeOK, BothWaysAlike
<1>. QED BY <1>1, StepSystem, StepTracking, StepLookup, StepStart DEF Next

\* What the maps know, until TrackingLoop ends.
LEMMA StepFollowed ==
  ASSUME IInv, Followed, [Next]_vars, phase' # "ended"
  PROVE  Followed'
<1>1. phase # "ended"
  BY DEF Next, System, Close, Bind, Begin, Expire, Changes, Open, Bootstrap, FlowEstablished,
         FlowDeleted, Apply, TrackingEnds, Lookup, Scan, Insert, vars
<1>2. CASE System
  <2>1. flows' \subseteq Outbound
    BY StepMaps DEF IInv, MapsInv, TypeOK
  <2>. QED BY <1>1, <1>2, <2>1, SystemIsFollowed
<1>3. CASE Open \/ (\E t \in Tuples : Lookup(t)) \/ (\E read \in BOOLEAN : Scan(read)) \/ UNCHANGED vars
  <2>1. UNCHANGED <<socket, flows, events, maps, overtaken>>
    BY <1>3 DEF Open, Lookup, Scan, vars, system_vars
  <2>2. \A f \in flows : Owner(f)' = Owner(f)
    BY <2>1 DEF Owner
  <2>. QED BY <2>1, <2>2, SocketsStay
<1>4. CASE TrackingEnds
  BY <1>4 DEF TrackingEnds
<1>. QED
  BY <1>2, <1>3, <1>4, BootstrapIsFollowed, TrackingIsFollowed, InsertIsFollowed DEF Next

\* At the start nothing is known, waits or is looked up.
LEMMA InitMaps ==
  ASSUME Init
  PROVE  IInv
<1>1. \A t \in Tuples : flow_table[t] = flow_table[Reversed(t)]
  BY ReversedIsTuple DEF Init
<1>2. MapsInv
  BY <1>1, ChangesAssumption DEF Init, MapsInv, TypeOK, BothWaysAlike
<1>3. NothingBeforeStart
  BY DEF Init, NothingBeforeStart
<1>4. WaitingIsTrue /\ FlowsAreRight /\ EndpointsAreRight
  <2>1. Len(events) = 0
    BY DEF Init
  <2>2. WaitingIsTrue
    BY <2>1 DEF WaitingIsTrue
  <2>3. FlowsAreRight
    BY DEF Init, FlowsAreRight, Tuples
  <2>4. EndpointsAreRight
    BY DEF Init, EndpointsAreRight
  <2>. QED BY <2>2, <2>3, <2>4
<1>. QED BY <1>2, <1>3, <1>4 DEF IInv

\* In every reachable state both directions of a flow have the same process,
\* the maps hold none that IsNoisePid rejects, and while the tracking thread
\* follows the driver they are right about all that no waiting event changes.
THEOREM Invariance == Spec => []IInv
<1>1. Init => IInv
  BY InitMaps
<1>2. IInv /\ [Next]_vars => IInv'
  <2>. SUFFICES ASSUME IInv, [Next]_vars PROVE IInv'
    OBVIOUS
  <2>1. phase' # "ended" => phase # "ended"
    BY DEF Next, System, Close, Bind, Begin, Expire, Changes, Open, Bootstrap, FlowEstablished,
           FlowDeleted, Apply, TrackingEnds, Lookup, Scan, Insert, vars
  <2>2. MapsInv'
    BY StepMaps DEF IInv
  <2>3. phase' # "ended" => Followed'
    BY <2>1, StepFollowed DEF IInv, Followed
  <2>. QED BY <2>2, <2>3, StepNothing DEF IInv, Followed
<1>. QED BY <1>1, <1>2, PTL DEF Spec

\* A flow's packets are attributed alike in both directions.
THEOREM DirectionsAgree == Spec => []BothWaysAlike
<1>1. IInv => BothWaysAlike
  BY DEF IInv, MapsInv
<1>. QED BY <1>1, Invariance, PTL

\* Once the tracking thread has caught up, a flow's packets go to the process
\* that owns it or to none, unless a lookup wrote what it had read before the
\* flow changed hands.
THEOREM CaughtUpIsRight == Spec => []RightUnlessOvertaken
<1>1. IInv => RightUnlessOvertaken
  <2>. SUFFICES ASSUME IInv, CaughtUp, NEW f \in flows, f \notin overtaken, Owner(f) \notin NoisePids
       PROVE  Cached(f) \in Claimants(f) \cup {NoPid}
    BY DEF RightUnlessOvertaken
  <2>1. f \in Outbound /\ flows \subseteq Outbound
    BY DEF IInv, MapsInv, TypeOK
  <2>2. \A fs : ~ Awaits(fs)
    BY EmptySeq DEF CaughtUp, Awaits
  <2>3. CASE flow_table[f] # NoPid
    <3>1. PICK g \in Pair(f) \cap flows : flow_table[f] = Owner(g)
      BY <2>1, <2>2, <2>3 DEF IInv, CaughtUp, FlowsAreRight
    <3>2. g = f \/ (g = Reversed(f) /\ f[2] \in Ports)
      BY <2>1, <3>1 DEF Pair, Outbound, Reversed
    <3>. QED BY <2>3, <3>1, <3>2 DEF Cached, Claimants
  <2>4. CASE flow_table[f] = NoPid
    <3>1. Cached(f) = Endpoint(f[1])
      BY <2>1, <2>4 DEF Cached, LocalPort, Flow
    <3>. QED BY <2>2, <3>1 DEF IInv, CaughtUp, EndpointsAreRight, Claimants
  <2>. QED BY <2>3, <2>4
<1>. QED BY <1>1, Invariance, PTL

=============================================================================
