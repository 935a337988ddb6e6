----------------------------- MODULE TargetSet -----------------------------
(***************************************************************************)
(* What EffectConfig.h's TargetPidSet promises to its callers: a set of    *)
(* process ids on which every operation takes effect at one instant        *)
(* between its call and its return (a linearizable set).                   *)
(***************************************************************************)
CONSTANTS
  Pids,      \* process ids
  Writers,   \* threads that change the set
  Readers    \* threads that ask Contains

VARIABLES
  target,    \* the set
  writing,   \* for every writer: its operation, and whether it has taken effect
  asking     \* for every reader: its question, and the answer once there is one

vars == <<target, writing, asking>>

Operations == [name : {"Add", "Remove", "Clear", "SetSelectedPid"}, pid : Pids]

Effect(op, S) ==
  CASE op.name = "Add" -> S \cup {op.pid}
    [] op.name = "Remove" -> S \ {op.pid}
    [] op.name = "Clear" -> {}
    [] op.name = "SetSelectedPid" -> {op.pid}

NotWriting == [stage |-> "idle"]
NotAsking == [stage |-> "idle"]

Init ==
  /\ target = {}
  /\ writing = [w \in Writers |-> NotWriting]
  /\ asking = [r \in Readers |-> NotAsking]

CallWrite(w, op) ==
  /\ writing[w] = NotWriting
  /\ writing' = [writing EXCEPT ![w] = [stage |-> "called", op |-> op]]
  /\ UNCHANGED <<target, asking>>

TakeEffect(w) ==
  /\ writing[w].stage = "called"
  /\ target' = Effect(writing[w].op, target)
  /\ writing' = [writing EXCEPT ![w] = [stage |-> "done"]]
  /\ UNCHANGED asking

ReturnWrite(w) ==
  /\ writing[w].stage = "done"
  /\ writing' = [writing EXCEPT ![w] = NotWriting]
  /\ UNCHANGED <<target, asking>>

CallContains(r, pid) ==
  /\ asking[r] = NotAsking
  /\ asking' = [asking EXCEPT ![r] = [stage |-> "called", pid |-> pid]]
  /\ UNCHANGED <<target, writing>>

Decide(r) ==
  /\ asking[r].stage = "called"
  /\ asking' = [asking EXCEPT ![r] = [stage |-> "done", answer |-> asking[r].pid \in target]]
  /\ UNCHANGED <<target, writing>>

ReturnContains(r) ==
  /\ asking[r].stage = "done"
  /\ asking' = [asking EXCEPT ![r] = NotAsking]
  /\ UNCHANGED <<target, writing>>

Next ==
  \/ \E w \in Writers : \/ \E op \in Operations : CallWrite(w, op)
                        \/ TakeEffect(w) \/ ReturnWrite(w)
  \/ \E r \in Readers : \/ \E pid \in Pids : CallContains(r, pid)
                        \/ Decide(r) \/ ReturnContains(r)

Spec == Init /\ [][Next]_vars
=============================================================================
