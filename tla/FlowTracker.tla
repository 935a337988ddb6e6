---------------------------- MODULE FlowTracker ----------------------------
(***************************************************************************)
(* core/FlowTracker: which process owns a packet.  The tracking thread     *)
(* applies the FLOW layer's events, in their order but some time after     *)
(* they happened, to flow_table_ and endpoint_to_pid_; the capture thread  *)
(* looks packets up in both, and on a miss reads the system's UDP table    *)
(* and remembers what it found (LookupPid).  Each holds mutex_ for a part  *)
(* of what it does only.                                                   *)
(*                                                                         *)
(* The machine has one local address besides the wildcard, on which a port *)
(* has one socket at most; a remote endpoint is a model value.  Traffic    *)
(* between two local sockets is a flow of each of them, and WinDivert       *)
(* reports its packets as outbound in both directions.                     *)
(***************************************************************************)
EXTENDS Naturals, Sequences

CONSTANTS
  Ports,        \* local UDP ports
  Remotes,      \* remote endpoints
  Pids,         \* processes
  NoisePids,    \* those of them IsNoisePid rejects: the System process
  NoPid,        \* pid 0
  MaxChanges    \* bound: sockets opened or closed, flows begun or expired

ASSUME PidsAssumption == NoPid \notin Pids /\ NoisePids \subseteq Pids
ASSUME EndpointsAssumption == Ports \cap Remotes = {}
ASSUME ChangesAssumption == MaxChanges \in Nat

Addresses == {"local", "any"}
Sockets == [pid : Pids, addr : Addresses]
NoSocket == [pid |-> NoPid, addr |-> "any"]

Outbound == {t \in Ports \X (Remotes \cup Ports) : t[1] # t[2]}
Tuples == Outbound \cup (Remotes \X Ports)
Reversed(t) == <<t[2], t[1]>>
\* The tuple as its owner sends it, and the port that LookupPid takes for a
\* packet's local end.
Flow(t) == IF t \in Outbound THEN t ELSE Reversed(t)
LocalPort(t) == Flow(t)[1]

Events == [kind : {"established", "deleted"}, flow : Outbound, pid : Pids]

VARIABLES
  socket,           \* the system: port -> its socket
  flows,            \* the system: the flows that are established
  changes,          \* how often these two changed
  phase,            \* FlowTracker::Start: "off", "open", "running"; "ended" after TrackingLoop
  events,           \* the FLOW layer's queue
  flow_table,       \* flow_table_; NoPid for an absent entry
  endpoint_to_pid,  \* endpoint_to_pid_, by address and port; likewise
  lookup_pc,        \* where the capture thread is in LookupPid
  lookup,           \* the tuple that is looked up
  found,            \* what LookupPidFromSystem returned
  overtaken         \* history: flows whose entry was written from an outdated table

system_vars == <<socket, flows, changes>>
maps == <<flow_table, endpoint_to_pid>>
lookup_vars == <<lookup_pc, lookup, found>>
vars == <<system_vars, phase, events, maps, lookup_vars, overtaken>>

NoTuple == << >>

Init ==
  /\ socket = [p \in Ports |-> NoSocket]
  /\ flows = {}
  /\ changes = 0
  /\ phase = "off"
  /\ events = << >>
  /\ flow_table = [t \in Tuples |-> NoPid]
  /\ endpoint_to_pid = [e \in Addresses \X Ports |-> NoPid]
  /\ lookup_pc = "idle" /\ lookup = NoTuple /\ found = NoPid
  /\ overtaken = {}

-----------------------------------------------------------------------------
(* The system.  Its FLOW layer queues events once the handle is open. *)

Changes(queued) ==
  /\ changes < MaxChanges
  /\ changes' = changes + 1
  /\ events' = IF phase \in {"open", "running"} THEN events \o queued ELSE events
  /\ UNCHANGED <<phase, maps, lookup_vars, overtaken>>

Bind(port, s) ==
  /\ socket[port] = NoSocket
  /\ socket' = [socket EXCEPT ![port] = s]
  /\ UNCHANGED flows
  /\ Changes(<< >>)

\* The first packet between a socket and a remote endpoint, either way.
Begin(f) ==
  /\ socket[f[1]] # NoSocket
  /\ f \notin flows
  /\ flows' = flows \cup {f}
  /\ UNCHANGED socket
  /\ Changes(<<[kind |-> "established", flow |-> f, pid |-> socket[f[1]].pid]>>)

Expire(f) ==
  /\ f \in flows
  /\ flows' = flows \ {f}
  /\ UNCHANGED socket
  /\ Changes(<<[kind |-> "deleted", flow |-> f, pid |-> socket[f[1]].pid]>>)

\* A socket is closed once its flows are gone.
Close(port) ==
  /\ socket[port] # NoSocket
  /\ \A f \in flows : f[1] # port
  /\ socket' = [socket EXCEPT ![port] = NoSocket]
  /\ UNCHANGED flows
  /\ Changes(<< >>)

System ==
  \/ \E port \in Ports : Close(port) \/ \E s \in Sockets : Bind(port, s)
  \/ \E f \in Outbound : Begin(f) \/ Expire(f)

-----------------------------------------------------------------------------
(* Start, and the tracking thread *)

Open ==
  /\ phase = "off"
  /\ phase' = "open"
  /\ UNCHANGED <<system_vars, events, maps, lookup_vars, overtaken>>

\* BootstrapFromSystem.  Neither thread runs yet.
Bootstrap(read) ==
  /\ phase = "open"
  /\ phase' = "running"
  /\ endpoint_to_pid' = [e \in Addresses \X Ports |->
       IF read /\ socket[e[2]].addr = e[1] /\ socket[e[2]].pid \notin NoisePids
         THEN socket[e[2]].pid ELSE NoPid]
  /\ UNCHANGED <<system_vars, events, flow_table, lookup_vars, overtaken>>

Apply(kind) ==
  /\ phase = "running"
  /\ events # << >>
  /\ Head(events).kind = kind
  /\ events' = Tail(events)
  /\ overtaken' = IF kind = "established" /\ Head(events).pid \in NoisePids THEN overtaken
                   ELSE overtaken \ {Head(events).flow, Reversed(Head(events).flow)}
  /\ UNCHANGED <<system_vars, phase, lookup_vars>>

\* Both directions of a flow in the table.
SetFlow(table, t, pid) == [table EXCEPT ![t] = pid, ![Reversed(t)] = pid]

\* Seeded fault: what is known of a flow already is kept.
FlowEstablishedOnlyNew ==
  /\ Apply("established")
  /\ LET e == Head(events)
     IN  IF e.pid \in NoisePids \/ flow_table[e.flow] # NoPid THEN UNCHANGED maps
         ELSE /\ flow_table' = SetFlow(flow_table, e.flow, e.pid)
              /\ endpoint_to_pid' = [endpoint_to_pid EXCEPT ![<<"local", e.flow[1]>>] = e.pid]

\* OnFlowEstablished; the system's own traffic is not recorded.
FlowEstablished ==
  /\ Apply("established")
  /\ LET e == Head(events)
     IN  IF e.pid \in NoisePids THEN UNCHANGED maps
         ELSE /\ flow_table' = SetFlow(flow_table, e.flow, e.pid)
              /\ endpoint_to_pid' = [endpoint_to_pid EXCEPT ![<<"local", e.flow[1]>>] = e.pid]

\* Seeded fault: only the direction of the event is erased.
FlowDeletedOneWay ==
  /\ Apply("deleted")
  /\ LET f == Head(events).flow
     IN  /\ flow_table' = [flow_table EXCEPT ![f] = NoPid]
         /\ endpoint_to_pid' = [endpoint_to_pid EXCEPT ![<<"local", f[1]>>] = NoPid,
                                                       ![<<"any", f[1]>>] = NoPid]

\* OnFlowDeleted erases the flow and, with it, what is known of the endpoint.
FlowDeleted ==
  /\ Apply("deleted")
  /\ LET f == Head(events).flow
     IN  /\ flow_table' = SetFlow(flow_table, f, NoPid)
         /\ endpoint_to_pid' = [endpoint_to_pid EXCEPT ![<<"local", f[1]>>] = NoPid,
                                                       ![<<"any", f[1]>>] = NoPid]

\* TrackingLoop ends, by Stop or by a fatal error.
TrackingEnds ==
  /\ phase = "running"
  /\ phase' = "ended"
  /\ UNCHANGED <<system_vars, events, maps, lookup_vars, overtaken>>

-----------------------------------------------------------------------------
(* The capture thread: LookupPid *)

\* What the endpoints tell of a port, that of the address itself first.
Endpoint(p) == IF endpoint_to_pid[<<"local", p>>] # NoPid THEN endpoint_to_pid[<<"local", p>>]
               ELSE endpoint_to_pid[<<"any", p>>]

\* The maps' answer to a packet, under the shared lock; NoPid is a miss.
Cached(t) == IF flow_table[t] # NoPid THEN flow_table[t] ELSE Endpoint(LocalPort(t))

\* A packet of an established flow, in one direction or the other.
Lookup(t) ==
  /\ phase \in {"running", "ended"}
  /\ lookup_pc = "idle"
  /\ Flow(t) \in flows
  /\ IF Cached(t) # NoPid
       THEN UNCHANGED lookup_vars
       ELSE lookup_pc' = "scan" /\ lookup' = t /\ UNCHANGED found
  /\ UNCHANGED <<system_vars, phase, events, maps, overtaken>>

\* LookupPidFromSystem: the table may be unreadable.
Scan(read) ==
  /\ lookup_pc = "scan"
  /\ LET pid == socket[LocalPort(lookup)].pid
     IN  found' = IF read /\ pid \notin NoisePids THEN pid ELSE NoPid
  /\ lookup_pc' = "insert"
  /\ UNCHANGED <<system_vars, phase, events, maps, lookup, overtaken>>

\* InsertFlow, if a process was found.
Insert ==
  /\ lookup_pc = "insert"
  /\ flow_table' = IF found = NoPid THEN flow_table ELSE SetFlow(flow_table, lookup, found)
  /\ overtaken' = IF found # NoPid /\ (Flow(lookup) \notin flows \/ socket[LocalPort(lookup)].pid # found)
                    THEN overtaken \cup ({lookup, Reversed(lookup)} \cap Outbound) ELSE overtaken
  /\ lookup_pc' = "idle" /\ lookup' = NoTuple /\ found' = NoPid
  /\ UNCHANGED <<system_vars, phase, events, endpoint_to_pid>>

-----------------------------------------------------------------------------
Next ==
  \/ System
  \/ Open \/ \E read \in BOOLEAN : Bootstrap(read)
  \/ FlowEstablished \/ FlowDeleted \/ TrackingEnds
  \/ \E t \in Tuples : Lookup(t)
  \/ \E read \in BOOLEAN : Scan(read)
  \/ Insert

Spec == Init /\ [][Next]_vars

-----------------------------------------------------------------------------
(* Properties *)

\* Every variable stays in its range; the maps hold no process that
\* IsNoisePid rejects.
TypeOK ==
  LET Known == (Pids \ NoisePids) \cup {NoPid}
  IN  /\ socket \in [Ports -> Sockets \cup {NoSocket}]
      /\ flows \subseteq Outbound
      /\ changes \in 0 .. MaxChanges
      /\ phase \in {"off", "open", "running", "ended"}
      /\ events \in Seq(Events)
      /\ flow_table \in [Tuples -> Known]
      /\ endpoint_to_pid \in [Addresses \X Ports -> Known]
      /\ lookup_pc \in {"idle", "scan", "insert"}
      /\ lookup \in Tuples \cup {NoTuple}
      /\ found \in Known
      /\ overtaken \subseteq Outbound

\* A flow's packets are attributed alike in both directions.
BothWaysAlike == \A t \in Tuples : flow_table[t] = flow_table[Reversed(t)]

\* Neither the events, nor the lookups, nor any order of them separates the two
\* directions or lets a rejected process in.
MapsInv ==
  /\ TypeOK
  /\ \A f \in flows : socket[f[1]] # NoSocket
  /\ lookup_pc # "idle" => lookup \in Tuples
  /\ BothWaysAlike

Owner(f) == socket[f[1]].pid
CaughtUp == phase = "running" /\ events = << >>

\* InsertFlow and OnFlowEstablished write both directions, and for a flow
\* between two local sockets each of them belongs to one of the two: what is
\* written last answers for both.
Claimants(f) == {Owner(f)} \cup (IF f[2] \in Ports THEN {Owner(Reversed(f))} ELSE {})

\* The events that change the maps, and the flows they change.
Writes(e) == e.kind = "deleted" \/ e.pid \notin NoisePids
Pair(f) == {f, Reversed(f)}
Awaits(fs) == \E i \in 1 .. Len(events) : Writes(events[i]) /\ events[i].flow \in fs

\* Until BootstrapFromSystem nothing is known, and no event is older than Open.
NothingBeforeStart ==
  /\ phase = "off" => events = << >>
  /\ phase \in {"off", "open"} =>
       /\ lookup_pc = "idle"
       /\ \A t \in Tuples : flow_table[t] = NoPid
       /\ \A e \in Addresses \X Ports : endpoint_to_pid[e] = NoPid

\* An "established" event that waits is still true, unless the "deleted" event
\* of its flow waits behind it.
WaitingIsTrue ==
  \A i \in 1 .. Len(events) :
    \/ events[i].kind = "deleted"
    \/ \E j \in i + 1 .. Len(events) : events[j].kind = "deleted" /\ events[j].flow = events[i].flow
    \/ events[i].flow \in flows /\ events[i].pid = Owner(events[i].flow)

\* What flow_table_ knows of a flow that no event is about to change.
FlowsAreRight ==
  \A f \in Outbound \ overtaken :
    \/ Awaits(Pair(f))
    \/ flow_table[f] = NoPid
    \/ \E g \in Pair(f) \cap flows : flow_table[f] = Owner(g)

\* What endpoint_to_pid_ knows of a port with a flow.
EndpointsAreRight ==
  \A f \in flows :
    \/ Owner(f) \in NoisePids
    \/ Awaits({g \in Outbound : g[1] = f[1]})
    \/ Endpoint(f[1]) \in {NoPid, Owner(f)}

\* The inductive invariant.  Once TrackingLoop has ended nobody follows the
\* system any more.
IInv ==
  /\ MapsInv
  /\ NothingBeforeStart
  /\ phase # "ended" => WaitingIsTrue /\ FlowsAreRight /\ EndpointsAreRight

\* When the tracking thread has caught up with the driver, the maps know the
\* right process or none for every flow (between two local sockets: the process
\* of one of its ends), unless the entry was written by a lookup that read the
\* system's table before the flow changed hands.
RightUnlessOvertaken ==
  CaughtUp =>
    \A f \in flows \ overtaken :
      Owner(f) \notin NoisePids => Cached(f) \in Claimants(f) \cup {NoPid}
=============================================================================
