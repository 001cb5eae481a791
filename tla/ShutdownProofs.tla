--------------------------- MODULE ShutdownProofs ---------------------------
(***************************************************************************)
(* Proofs about the life of a server, for any finite sets of connections   *)
(* and calls, any number of hooks, with and without TLS: the counter is    *)
(* exact, the drain is sound, the handle's answer is honest, and each step *)
(* is a step of Lifecycle.                                                 *)
(***************************************************************************)
EXTENDS Shutdown, FiniteSetTheorems, TLAPS

MP == INSTANCE ManagersProofs WITH MaxHooks <- NHooks

-----------------------------------------------------------------------------
(* The counter.                                                            *)

(* There are finitely many guards, so they can be counted.                 *)
LEMMA GuardsFinite == IsFiniteSet(Guards)
<1>1. IsFiniteSet(RunningCalls) /\ IsFiniteSet(TlsGuards)
  BY FS_Subset, ShutdownAssumption DEF RunningCalls, TlsGuards
<1> QED
  BY <1>1, FS_Union DEF Guards

(* A step that creates or drops one guard moves the counter by one.        *)
LEMMA GuardAdded ==
  ASSUME ActiveCountsGuards, NEW g, g \notin Guards,
         Guards' = Guards \cup {g}, active_requests' = active_requests + 1
  PROVE  ActiveCountsGuards'
  BY GuardsFinite, FS_AddElement DEF ActiveCountsGuards

(* Dropping one guard takes one off their number.                          *)
LEMMA GuardDropped ==
  ASSUME ActiveCountsGuards, NEW g \in Guards,
         Guards' = Guards \ {g}, active_requests' = active_requests - 1
  PROVE  ActiveCountsGuards'
  BY GuardsFinite, FS_RemoveElement DEF ActiveCountsGuards

(* With the same guards and the same counter, the count stays exact.       *)
LEMMA GuardsSame ==
  ASSUME ActiveCountsGuards, Guards' = Guards, UNCHANGED active_requests
  PROVE  ActiveCountsGuards'
  BY DEF ActiveCountsGuards

(* A step that moves neither connections nor calls keeps the guards.       *)
LEMMA GuardsOfSame == UNCHANGED <<tls, conn, call>> => Guards' = Guards
  BY DEF Guards, RunningCalls, TlsGuards

(* The counter is a natural number, so a drop never wraps.                 *)
LEMMA CounterNat == ActiveCountsGuards => active_requests \in Nat
  BY GuardsFinite, FS_CardinalityType DEF ActiveCountsGuards

(* Opening, serving and closing a connection.                              *)
LEMMA ConnCounted ==
  ASSUME TypeOK, ActiveCountsGuards, PlainHasNoHandshake, NEW c \in Conns,
         \/ Accept(c)
         \/ HandshakeOk(c)
         \/ HandshakeFails(c)
         \/ CloseConn(c)
  PROVE  ActiveCountsGuards' /\ PlainHasNoHandshake'
<1> USE ShutdownAssumption
<1>1. RunningCalls' = RunningCalls /\ c \notin RunningCalls
  BY DEF Accept, HandshakeOk, HandshakeFails, CloseConn, ConnStep, RunningCalls
<1>2. CASE Accept(c)
  <2>1. TlsGuards' = TlsGuards
    BY <1>2 DEF Accept, ConnStep, TlsGuards, TypeOK
  <2>2. Guards' = Guards
    BY <1>1, <2>1 DEF Guards
  <2> QED
    BY <1>2, <2>2, GuardsSame
       DEF Accept, ConnStep, PlainHasNoHandshake, TypeOK
<1>3. CASE HandshakeOk(c)
  <2>1. TlsGuards' = TlsGuards \cup {c} /\ c \notin TlsGuards
    BY <1>3 DEF HandshakeOk, ConnStep, TlsGuards, TypeOK, PlainHasNoHandshake
  <2>2. Guards' = Guards \cup {c} /\ c \notin Guards
    BY <1>1, <2>1 DEF Guards
  <2> QED
    BY <1>3, <2>2, GuardAdded
       DEF HandshakeOk, ConnStep, PlainHasNoHandshake, TypeOK
<1>4. CASE HandshakeFails(c)
  <2>1. TlsGuards' = TlsGuards
    BY <1>4 DEF HandshakeFails, ConnStep, TlsGuards, TypeOK
  <2>2. Guards' = Guards
    BY <1>1, <2>1 DEF Guards
  <2> QED
    BY <1>4, <2>2, GuardsSame
       DEF HandshakeFails, ConnStep, PlainHasNoHandshake, TypeOK
<1>5. CASE CloseConn(c) /\ tls
  <2>1. TlsGuards' = TlsGuards \ {c} /\ c \in TlsGuards
    BY <1>5 DEF CloseConn, ConnStep, TlsGuards, TypeOK
  <2>2. Guards' = Guards \ {c} /\ c \in Guards
    BY <1>1, <2>1 DEF Guards
  <2> QED
    BY <1>5, <2>2, GuardDropped
       DEF CloseConn, ConnStep, PlainHasNoHandshake, TypeOK
<1>6. CASE CloseConn(c) /\ ~tls
  <2>1. TlsGuards = {} /\ TlsGuards' = {}
    BY <1>6 DEF CloseConn, ConnStep, TlsGuards
  <2>2. Guards' = Guards
    BY <1>1, <2>1 DEF Guards
  <2> QED
    BY <1>6, <2>2, GuardsSame
       DEF CloseConn, ConnStep, PlainHasNoHandshake, TypeOK
<1> QED
  BY <1>2, <1>3, <1>4, <1>5, <1>6

(* Submitting, beginning and ending a call.                                *)
LEMMA CallCounted ==
  ASSUME TypeOK, ActiveCountsGuards, NEW k \in Calls,
         Submit(k) \/ BeginCall(k) \/ EndCall(k)
  PROVE  ActiveCountsGuards'
<1> USE ShutdownAssumption
<1>1. TlsGuards' = TlsGuards /\ k \notin TlsGuards
  BY DEF Submit, BeginCall, EndCall, CallStep, TlsGuards
<1>2. CASE Submit(k)
  <2>1. Guards' = Guards
    BY <1>1, <1>2 DEF Submit, CallStep, Guards, RunningCalls, TypeOK
  <2> QED
    BY <1>2, <2>1, GuardsSame DEF Submit
<1>3. CASE BeginCall(k)
  <2>1. RunningCalls' = RunningCalls \cup {k} /\ k \notin RunningCalls
    BY <1>3 DEF BeginCall, CallStep, RunningCalls, TypeOK
  <2>2. Guards' = Guards \cup {k} /\ k \notin Guards
    BY <1>1, <2>1 DEF Guards
  <2> QED
    BY <1>3, <2>2, GuardAdded DEF BeginCall
<1>4. CASE EndCall(k)
  <2>1. RunningCalls' = RunningCalls \ {k} /\ k \in RunningCalls
    BY <1>4 DEF EndCall, CallStep, RunningCalls, TypeOK
  <2>2. Guards' = Guards \ {k} /\ k \in Guards
    BY <1>1, <2>1 DEF Guards
  <2> QED
    BY <1>4, <2>2, GuardDropped DEF EndCall
<1> QED
  BY <1>2, <1>3, <1>4

(* The steps of the handle leave connections and calls alone.              *)
LEMMA HandleFrame ==
  ASSUME HandleNext
  PROVE  UNCHANGED <<tls, accepting, server, conn, call, active_requests,
                     monitor, early_exit, drained, completion, hooks>>
<1>1. CASE Cancel
  BY <1>1 DEF Cancel
<1>2. ASSUME NEW from, NEW to, HandleStep(from, to)
      PROVE  UNCHANGED <<tls, accepting, server, conn, call, active_requests,
                         monitor, early_exit, drained, completion, hooks>>
  BY <1>2 DEF HandleStep
<1> QED
  BY <1>1, <1>2 DEF HandleNext, WaitForCompletion, DropHandle, WaitEnds,
                    WaitOk, WaitLost, WaitTimesOut

(* The steps of a connection leave the tasks alone.                        *)
LEMMA ConnFrame ==
  ASSUME ConnNext
  PROVE  UNCHANGED <<tls, cancelled, accepting, server, call, monitor,
                     early_exit, drained, completion, handle, hooks>>
<1>1. ASSUME NEW c \in Conns, NEW from, NEW to, ConnStep(c, from, to)
      PROVE  UNCHANGED <<tls, cancelled, accepting, server, call, monitor,
                         early_exit, drained, completion, handle, hooks>>
  BY <1>1 DEF ConnStep
<1> QED
  BY <1>1 DEF ConnNext, Accept, HandshakeOk, HandshakeFails, CloseConn

(* The steps of a call leave the tasks alone.                              *)
LEMMA CallFrame ==
  ASSUME CallNext
  PROVE  UNCHANGED <<tls, cancelled, accepting, server, conn, monitor,
                     early_exit, drained, completion, handle, hooks>>
<1>1. ASSUME NEW k \in Calls, NEW from, NEW to, CallStep(k, from, to)
      PROVE  UNCHANGED <<tls, cancelled, accepting, server, conn, monitor,
                         early_exit, drained, completion, handle, hooks>>
  BY <1>1 DEF CallStep
<1> QED
  BY <1>1 DEF CallNext, Submit, BeginCall, EndCall

(* The steps of the server task leave everything else alone.               *)
LEMMA ServerFrame ==
  ASSUME ServerNext
  PROVE  /\ UNCHANGED <<tls, cancelled, conn, call, active_requests, monitor,
                        early_exit, drained, completion, handle, hooks>>
         /\ server' = server \/ (server = "running" /\ server' # "running")
  BY DEF ServerNext, StopAccepting, ServerFinish, ServerPanic, ServerStep

(* The steps of the monitor leave the clients, the server and the handle   *)
(* alone.                                                                  *)
LEMMA MonitorFrame ==
  ASSUME MonitorNext
  PROVE  UNCHANGED <<tls, cancelled, accepting, server, conn, call,
                     active_requests, handle>>
<1>1. ASSUME NEW from, NEW to, MonitorStep(from, to)
      PROVE  UNCHANGED <<tls, cancelled, accepting, server, conn, call,
                         active_requests, handle>>
  BY <1>1 DEF MonitorStep
<1>2. CASE ShutDownManagers(HooksStep)
  BY <1>2 DEF ShutDownManagers, svars
<1> QED
  BY <1>1, <1>2
     DEF MonitorNext, MonitorCancelled, MonitorServerExit, AwaitDone,
         AwaitTimesOut, DrainDone, DrainTimesOut, Drain, MonitorPanics,
         SignalCompletion

(* Every step keeps the counter exact.                                     *)
LEMMA NextCounted ==
  TypeOK /\ ActiveCountsGuards /\ PlainHasNoHandshake /\ [Next]_vars
    => ActiveCountsGuards' /\ PlainHasNoHandshake'
<1> SUFFICES ASSUME TypeOK, ActiveCountsGuards, PlainHasNoHandshake, [Next]_vars
             PROVE  ActiveCountsGuards' /\ PlainHasNoHandshake'
  OBVIOUS
<1>1. CASE ConnNext
  BY <1>1, ConnCounted DEF ConnNext
<1>2. CASE CallNext
  <2>1. UNCHANGED <<tls, conn>>
    BY <1>2, CallFrame
  <2> QED
    BY <1>2, <2>1, CallCounted DEF CallNext, PlainHasNoHandshake
<1>3. CASE UNCHANGED <<tls, conn, call, active_requests>>
  BY <1>3, GuardsOfSame, GuardsSame DEF PlainHasNoHandshake
<1>4. CASE UNCHANGED vars
  BY <1>3, <1>4 DEF vars, svars
<1>5. CASE HandleNext \/ ServerNext \/ MonitorNext
  BY <1>3, <1>5, HandleFrame, ServerFrame, MonitorFrame
<1> QED
  BY <1>1, <1>2, <1>4, <1>5 DEF Next
-----------------------------------------------------------------------------
(* The hooks: Managers' own induction, carried over.                       *)

(* The invariant of the hooks is the one ManagersProofs is about.          *)
LEMMA SameInvariant == (M!IInv <=> MP!IInv) /\ (M!IInv' <=> MP!IInv')
  BY DEF M!IInv, MP!IInv, M!TypeOK, MP!TypeOK, M!SnapshotInBounds,
         MP!SnapshotInBounds, M!AboveSettled, MP!AboveSettled, M!BelowUp,
         MP!BelowUp, M!AtNext, MP!AtNext, M!HookState, MP!HookState,
         M!Settled, MP!Settled, M!Failed, MP!Failed, M!Phase, MP!Phase

(* The hooks keep their invariant inside the monitor task.                 *)
LEMMA HooksInductive ==
  ASSUME M!IInv, HooksStep \/ M!HookPanics \/ UNCHANGED hooks
  PROVE  M!IInv'
<1>1. NHooks \in Nat
  BY ShutdownAssumption
<1>2. CASE HooksStep \/ M!HookPanics
  <2>1. MP!Next
    BY <1>2
       DEF HooksStep, MP!Next, MP!ShutdownStep, M!BeginShutdown,
           MP!BeginShutdown, M!StartHook, MP!StartHook, M!HookOk, MP!HookOk,
           M!HookErr, MP!HookErr, M!HookTimesOut, MP!HookTimesOut, M!Return,
           MP!Return, M!Settle, MP!Settle, M!HookPanics, MP!HookPanics
  <2> QED
    BY <1>1, <2>1, SameInvariant, MP!NextIInv
<1>3. CASE UNCHANGED hooks
  BY <1>1, <1>3, SameInvariant, MP!NextIInv DEF hooks, MP!mvars
<1> QED
  BY <1>2, <1>3

(* What a step of the hooks does to the variables the monitor looks at.    *)
LEMMA HooksStepFrame ==
  ASSUME M!IInv, HooksStep
  PROVE  /\ Len(shutdown_hooks') = Len(shutdown_hooks)
         /\ phase' # "idle" /\ phase' # "unwound"
         /\ phase = "idle" => count' = Len(shutdown_hooks)
         /\ phase # "idle" => count' = count
         /\ phase # "returned" /\ phase # "unwound"
  BY DEF HooksStep, M!BeginShutdown, M!StartHook, M!HookOk, M!HookErr,
         M!HookTimesOut, M!Return, M!Settle, M!IInv, M!TypeOK

(* Every step keeps the hooks in line with the monitor.                    *)
LEMMA HooksFollow ==
  ASSUME HooksFollowMonitor, [Next]_vars PROVE HooksFollowMonitor'
<1> USE DEF HooksFollowMonitor
<1>1. CASE UNCHANGED <<hooks, monitor>>
  BY <1>1, HooksInductive DEF hooks
<1>2. CASE \/ MonitorCancelled
           \/ MonitorServerExit
           \/ AwaitDone
           \/ AwaitTimesOut
           \/ DrainDone
           \/ DrainTimesOut
           \/ SignalCompletion
  <2>1. UNCHANGED hooks
    BY <1>2 DEF MonitorCancelled, MonitorServerExit, AwaitDone, AwaitTimesOut,
                DrainDone, DrainTimesOut, Drain, SignalCompletion
  <2> QED
    BY <1>2, <2>1, HooksInductive
       DEF MonitorCancelled, MonitorServerExit, AwaitDone, AwaitTimesOut,
           DrainDone, DrainTimesOut, Drain, SignalCompletion, MonitorStep, hooks
<1>3. CASE ShutDownManagers(HooksStep)
  BY <1>3, HooksInductive, HooksStepFrame DEF ShutDownManagers, svars
<1>4. CASE MonitorPanics
  BY <1>4, HooksInductive
     DEF MonitorPanics, M!HookPanics, MonitorStep, M!IInv, M!TypeOK
<1>5. CASE UNCHANGED vars
  BY <1>1, <1>5 DEF vars, svars
<1>6. CASE HandleNext \/ ConnNext \/ CallNext \/ ServerNext
  BY <1>1, <1>6, HandleFrame, ConnFrame, CallFrame, ServerFrame
<1> QED
  BY <1>2, <1>3, <1>4, <1>5, <1>6 DEF Next, MonitorNext

-----------------------------------------------------------------------------
(* The completion channel.                                                 *)

(* Every step keeps the oneshot channel in line with the monitor.          *)
LEMMA SignalFollows ==
  ASSUME TypeOK, HooksFollowMonitor, SignalFollowsMonitor, [Next]_vars
  PROVE  SignalFollowsMonitor'
<1> USE DEF SignalFollowsMonitor
<1>1. CASE HandleNext
  BY <1>1 DEF HandleNext, Cancel, WaitForCompletion, DropHandle, WaitEnds,
              WaitOk, WaitLost, WaitTimesOut, HandleStep
<1>2. CASE ConnNext \/ CallNext
  BY <1>2, ConnFrame, CallFrame
<1>3. CASE ServerNext
  BY <1>3, ServerFrame
<1>4. CASE \/ MonitorCancelled
           \/ MonitorServerExit
           \/ AwaitDone
           \/ AwaitTimesOut
           \/ DrainDone
           \/ DrainTimesOut
  BY <1>4 DEF MonitorCancelled, MonitorServerExit, AwaitDone, AwaitTimesOut,
              DrainDone, DrainTimesOut, Drain, MonitorStep
<1>5. CASE SignalCompletion \/ MonitorPanics
  BY <1>5 DEF SignalCompletion, MonitorPanics, MonitorStep, TypeOK
<1>6. CASE ShutDownManagers(HooksStep) \/ UNCHANGED vars
  BY <1>6 DEF ShutDownManagers, vars, svars
<1> QED
  BY <1>1, <1>2, <1>3, <1>4, <1>5, <1>6 DEF Next, MonitorNext

-----------------------------------------------------------------------------
(* Types.                                                                  *)

(* Every step keeps every variable in its type.                            *)
LEMMA NextTyped ==
  ASSUME IInv, [Next]_vars, ActiveCountsGuards', M!IInv'
  PROVE  TypeOK'
<1>1. active_requests' \in Nat /\ M!TypeOK'
  <2>1. Guards' \subseteq Calls \cup Conns
    BY DEF Guards, RunningCalls, TlsGuards
  <2>2. IsFiniteSet(Guards')
    BY <2>1, FS_Union, FS_Subset, ShutdownAssumption
  <2> QED
    BY <2>2, FS_CardinalityType DEF ActiveCountsGuards, M!IInv
<1>2. CASE HandleNext
  <2>1. CASE Cancel
    BY <1>1, <2>1 DEF IInv, TypeOK, Cancel
  <2>2. ASSUME NEW from \in {"held", "waiting"},
               NEW to \in {"waiting", "ok", "lost", "timeout", "dropped"},
               HandleStep(from, to)
        PROVE  TypeOK'
    BY <1>1, <2>2 DEF IInv, TypeOK, HandleStep
  <2> QED
    BY <1>2, <2>1, <2>2
       DEF HandleNext, WaitForCompletion, DropHandle, WaitEnds, WaitOk,
           WaitLost, WaitTimesOut
<1>3. CASE ConnNext
  <2>1. ASSUME NEW c \in Conns, NEW from,
               NEW to \in {"handshake", "serving", "closed"},
               ConnStep(c, from, to)
        PROVE  conn' \in [Conns -> {"none", "handshake", "serving", "closed"}]
    BY <2>1 DEF IInv, TypeOK, ConnStep
  <2>2. conn' \in [Conns -> {"none", "handshake", "serving", "closed"}]
    BY <1>3, <2>1 DEF ConnNext, Accept, HandshakeOk, HandshakeFails, CloseConn
  <2> QED
    BY <1>1, <1>3, <2>2, ConnFrame DEF IInv, TypeOK
<1>4. CASE CallNext
  <2>1. ASSUME NEW k \in Calls, NEW from,
               NEW to \in {"queued", "running", "done"}, CallStep(k, from, to)
        PROVE  call' \in [Calls -> {"none", "queued", "running", "done"}]
    BY <2>1 DEF IInv, TypeOK, CallStep
  <2>2. call' \in [Calls -> {"none", "queued", "running", "done"}]
    BY <1>4, <2>1 DEF CallNext, Submit, BeginCall, EndCall
  <2> QED
    BY <1>1, <1>4, <2>2, CallFrame DEF IInv, TypeOK
<1>5. CASE ServerNext
  <2>1. CASE StopAccepting
    BY <1>1, <2>1 DEF IInv, TypeOK, StopAccepting, ServerStep
  <2>2. CASE ServerFinish
    BY <1>1, <2>2 DEF IInv, TypeOK, ServerFinish, ServerStep
  <2>3. CASE ServerPanic
    BY <1>1, <2>3 DEF IInv, TypeOK, ServerPanic, ServerStep
  <2> QED
    BY <1>5, <2>1, <2>2, <2>3 DEF ServerNext
<1>6. CASE MonitorNext
  <2>1. UNCHANGED <<tls, cancelled, accepting, server, conn, call, handle>>
    BY <1>6, MonitorFrame
  <2> SUFFICES /\ monitor' \in {"select", "awaitServer", "drain", "managers",
                                "done", "panicked"}
               /\ early_exit' \in BOOLEAN
               /\ drained' \in {"no", "zero", "timeout"}
               /\ completion' \in {"empty", "sent", "undelivered", "dropped"}
    BY <1>1, <2>1 DEF IInv, TypeOK
  <2> USE DEF IInv, TypeOK, MonitorStep
  <2>2. CASE MonitorCancelled \/ MonitorServerExit
    BY <2>2 DEF MonitorCancelled, MonitorServerExit
  <2>3. CASE AwaitDone \/ AwaitTimesOut
    BY <2>3 DEF AwaitDone, AwaitTimesOut
  <2>4. CASE DrainDone \/ DrainTimesOut
    BY <2>4 DEF DrainDone, DrainTimesOut, Drain
  <2>5. CASE ShutDownManagers(HooksStep)
    BY <2>5 DEF ShutDownManagers, svars
  <2>6. CASE MonitorPanics
    BY <2>6 DEF MonitorPanics
  <2>7. CASE SignalCompletion
    BY <2>7 DEF SignalCompletion
  <2> QED
    BY <1>6, <2>2, <2>3, <2>4, <2>5, <2>6, <2>7 DEF MonitorNext
<1>7. CASE UNCHANGED vars
  BY <1>1, <1>7 DEF IInv, TypeOK, vars, svars
<1> QED
  BY <1>2, <1>3, <1>4, <1>5, <1>6, <1>7 DEF Next
-----------------------------------------------------------------------------
(* The inductive invariant.                                                *)

(* A server that has just been spawned satisfies IInv.                     *)
LEMMA InitIInv == Init => IInv
<1> SUFFICES ASSUME Init PROVE IInv
  OBVIOUS
<1> USE ShutdownAssumption DEF Init
<1>1. Guards = {}
  BY DEF Guards, RunningCalls, TlsGuards
<1>2. ActiveCountsGuards
  BY <1>1, FS_EmptySet DEF ActiveCountsGuards
<1>3. M!IInv /\ Len(shutdown_hooks) = NHooks
  BY DEF M!IInv, M!TypeOK, M!SnapshotInBounds, M!AboveSettled, M!BelowUp,
         M!AtNext, M!HookState, M!Phase
<1>4. TypeOK
  BY <1>3 DEF TypeOK, M!IInv
<1>5. PlainHasNoHandshake
  BY DEF PlainHasNoHandshake
<1>6. HooksFollowMonitor /\ SignalFollowsMonitor
  BY <1>3 DEF HooksFollowMonitor, SignalFollowsMonitor
<1> QED
  BY <1>2, <1>4, <1>5, <1>6 DEF IInv

(* IInv is inductive.                                                      *)
LEMMA NextIInv == IInv /\ [Next]_vars => IInv'
<1> SUFFICES ASSUME IInv, [Next]_vars PROVE IInv'
  OBVIOUS
<1>1. ActiveCountsGuards' /\ PlainHasNoHandshake'
  BY NextCounted DEF IInv
<1>2. HooksFollowMonitor'
  BY HooksFollow DEF IInv
<1>3. SignalFollowsMonitor'
  BY SignalFollows DEF IInv
<1>4. TypeOK'
  BY <1>1, <1>2, NextTyped DEF HooksFollowMonitor
<1> QED
  BY <1>1, <1>2, <1>3, <1>4 DEF IInv

(* IInv holds in every state of the server.                                *)
THEOREM Invariance == Spec => []IInv
  BY InitIInv, NextIInv, PTL DEF Spec

(* Every variable keeps its type.                                          *)
THEOREM TypeCorrect == Spec => []TypeOK
<1>1. IInv => TypeOK
  BY DEF IInv
<1> QED
  BY <1>1, Invariance, PTL

(* The counter of RequestGuard is always the number of guards alive.       *)
THEOREM Counted == Spec => []ActiveCountsGuards
<1>1. IInv => ActiveCountsGuards
  BY DEF IInv
<1> QED
  BY <1>1, Invariance, PTL

(* When the drain loop reads zero, nothing it waits for is running.        *)
THEOREM DrainIsSound == Spec => DrainMeansIdle
<1>1. ASSUME IInv, [Next]_vars
      PROVE  [drained' = "zero" /\ drained = "no" => Guards = {}]_vars
  <2> SUFFICES ASSUME drained' = "zero", drained = "no" PROVE Guards = {}
    OBVIOUS
  <2>1. MonitorNext
    BY <1>1, HandleFrame, ConnFrame, CallFrame, ServerFrame
       DEF Next, vars, svars
  <2>2. DrainDone
    BY <2>1 DEF MonitorNext, MonitorCancelled, MonitorServerExit, AwaitDone,
                AwaitTimesOut, DrainTimesOut, Drain, ShutDownManagers,
                MonitorPanics, SignalCompletion, svars
  <2>3. Cardinality(Guards) = 0
    BY <1>1, <2>2 DEF IInv, ActiveCountsGuards, DrainDone
  <2> QED
    BY <2>3, GuardsFinite, FS_EmptySet
<1> QED
  BY <1>1, Invariance, PTL DEF Spec, DrainMeansIdle

(* What the invariant says of the answer of the handle.                    *)
LEMMA HonestByIInv == IInv => HandleIsHonest
<1> SUFFICES ASSUME IInv PROVE HandleIsHonest
  OBVIOUS
<1> USE DEF IInv, HooksFollowMonitor
<1>1. ASSUME handle = "ok"
      PROVE  /\ monitor = "done"
             /\ \A i \in 1..NHooks : shutdown_hooks[i] \in M!Settled
  <2>1. monitor = "done" /\ phase = "returned" /\ count = NHooks
    BY <1>1 DEF SignalFollowsMonitor
  <2>2. next = 0 /\ DOMAIN shutdown_hooks = 1..NHooks
    BY <2>1 DEF M!IInv, M!TypeOK, M!SnapshotInBounds
  <2> QED
    BY <2>1, <2>2 DEF M!IInv, M!AboveSettled, M!Settled, M!Failed
<1>2. ASSUME handle = "lost"
      PROVE  \E i \in 1..NHooks : shutdown_hooks[i] = "panic"
  <2>1. phase = "unwound"
    BY <1>2 DEF SignalFollowsMonitor
  <2>2. shutdown_hooks[next] = "panic" /\ next \in 1..NHooks
    BY <2>1 DEF M!IInv, M!TypeOK, M!SnapshotInBounds, M!AtNext
  <2> QED
    BY <2>2
<1> QED
  BY <1>1, <1>2 DEF HandleIsHonest

(* What wait_for_completion returns is what happened to the hooks.         *)
THEOREM Honest == Spec => []HandleIsHonest
  BY HonestByIInv, Invariance, PTL

-----------------------------------------------------------------------------
(* The refinement of Lifecycle.                                            *)

(* There are finitely many unsettled hooks, so they can be counted.        *)
LEMMA UnsettledFinite ==
  ASSUME M!TypeOK PROVE IsFiniteSet(Unsettled)
<1>1. Unsettled \subseteq 1..Len(shutdown_hooks) /\ Len(shutdown_hooks) \in Nat
  BY DEF M!TypeOK, Unsettled
<1>2. IsFiniteSet(1..Len(shutdown_hooks))
  BY <1>1, FS_Interval
<1> QED
  BY <1>1, <1>2, FS_Subset

(* A hook that ends, however it ends, is one hook less to stop.            *)
LEMMA OneHookLess ==
  ASSUME M!IInv, NEW r \in M!Settled, phase = "awaiting",
         shutdown_hooks' = [shutdown_hooks EXCEPT ![next] = r]
  PROVE  /\ Cardinality(Unsettled) \in Nat \ {0}
         /\ Cardinality(Unsettled') = Cardinality(Unsettled) - 1
<1>1. /\ next \in DOMAIN shutdown_hooks
      /\ shutdown_hooks[next] = "stopping"
      /\ DOMAIN shutdown_hooks' = DOMAIN shutdown_hooks
  BY DEF M!IInv, M!TypeOK, M!SnapshotInBounds, M!AtNext
<1>2. next \in Unsettled /\ Unsettled' = Unsettled \ {next}
  BY <1>1 DEF Unsettled, M!Settled
<1> QED
  BY <1>2, UnsettledFinite, FS_RemoveElement, FS_CardinalityType, FS_EmptySet
     DEF M!IInv

(* The server starts as Lifecycle does.                                    *)
LEMMA InitLifecycle == Init => L!Init
<1> SUFFICES ASSUME Init PROVE L!Init
  OBVIOUS
<1>1. Unsettled = 1..NHooks
  BY ShutdownAssumption DEF Init, Unsettled, M!Settled
<1>2. Cardinality(Unsettled) = NHooks
  BY <1>1, FS_Interval, ShutdownAssumption
<1> QED
  BY <1>2 DEF Init, L!Init, life, answer
(* Outside the hooks and the signal, a step is Stop or a stutter.          *)
LEMMA MayStop ==
  ASSUME UNCHANGED <<shutdown_hooks, handle>>,
         monitor' = monitor \/ (monitor # "done" /\ monitor # "panicked"
                                /\ monitor' # "done" /\ monitor' # "panicked"),
         cancelled => cancelled',
         server # "running" => server' # "running"
  PROVE  [L!Stop]_<<life, Cardinality(Unsettled), answer>>
<1>1. Unsettled' = Unsettled /\ answer' = answer
  BY DEF Unsettled, answer
<1>2. life' = life \/ (life = "up" /\ life' = "stopping")
  BY DEF life
<1> QED
  BY <1>1, <1>2 DEF L!Stop

(* What the monitor does to the hooks.                                     *)
LEMMA HooksImplement ==
  ASSUME IInv, ShutDownManagers(HooksStep)
  PROVE  [L!Next]_<<life, Cardinality(Unsettled), answer>>
<1> USE DEF IInv, HooksFollowMonitor, SignalFollowsMonitor
<1>1. life = "stopping" /\ life' = life /\ answer' = answer
  BY DEF ShutDownManagers, svars, life, answer
<1>2. CASE M!BeginShutdown \/ M!Return
  BY <1>1, <1>2 DEF M!BeginShutdown, M!Return, Unsettled
<1>3. CASE M!StartHook
  <2>1. Unsettled' = Unsettled
    BY <1>3 DEF M!StartHook, M!IInv, M!TypeOK, M!AtNext, Unsettled, M!Settled
  <2> QED
    BY <1>1, <2>1
<1>4. CASE M!HookOk \/ M!HookErr \/ M!HookTimesOut
  <2>1. /\ Cardinality(Unsettled) \in Nat \ {0}
        /\ Cardinality(Unsettled') = Cardinality(Unsettled) - 1
    BY <1>4, OneHookLess
       DEF M!HookOk, M!HookErr, M!HookTimesOut, M!Settle, M!Settled
  <2> QED
    BY <1>1, <2>1 DEF L!Next, L!StopHook
<1> QED
  BY <1>2, <1>3, <1>4 DEF ShutDownManagers, HooksStep

(* A panicking hook loses the server.                                      *)
LEMMA PanicImplements ==
  ASSUME IInv, MonitorPanics PROVE L!GetLost
<1> USE DEF IInv, HooksFollowMonitor, SignalFollowsMonitor
<1>1. /\ Cardinality(Unsettled) \in Nat \ {0}
      /\ Cardinality(Unsettled') = Cardinality(Unsettled) - 1
  BY OneHookLess DEF MonitorPanics, M!HookPanics, M!Settled
<1>2. life = "stopping" /\ life' = "lost" /\ answer' = answer
  BY DEF MonitorPanics, MonitorStep, life, answer
<1> QED
  BY <1>1, <1>2 DEF L!GetLost

(* The signal is sent only when no hook is left to stop.                   *)
LEMMA SignalImplements ==
  ASSUME IInv, SignalCompletion PROVE L!GoDown
<1> USE DEF IInv, HooksFollowMonitor, SignalFollowsMonitor
<1>1. Unsettled = {}
  BY DEF SignalCompletion, M!IInv, M!TypeOK, M!SnapshotInBounds,
         M!AboveSettled, M!Settled, M!Failed, Unsettled
<1>2. Cardinality(Unsettled) = 0 /\ Unsettled' = Unsettled
  BY <1>1, FS_EmptySet DEF SignalCompletion, hooks, Unsettled
<1>3. life = "stopping" /\ life' = "down" /\ answer' = answer
  BY DEF SignalCompletion, MonitorStep, life, answer
<1> QED
  BY <1>2, <1>3 DEF L!GoDown

(* The answer of wait_for_completion fits the state of the server.         *)
LEMMA WaitImplements ==
  ASSUME IInv, HandleNext
  PROVE  [L!Next]_<<life, Cardinality(Unsettled), answer>>
<1> USE DEF IInv, HooksFollowMonitor, SignalFollowsMonitor
<1>1. CASE Cancel
  BY <1>1, MayStop DEF Cancel, hooks, L!Next
<1>2. ASSUME NEW from \in {"held", "waiting"},
             NEW to \in {"waiting", "dropped"}, HandleStep(from, to)
      PROVE  UNCHANGED <<life, Cardinality(Unsettled), answer>>
  BY <1>2 DEF HandleStep, hooks, life, answer, Unsettled
<1>3. CASE WaitEnds
  <2>1. UNCHANGED <<life, Unsettled>> /\ answer = "none" /\ answer' = handle'
    BY <1>3 DEF WaitEnds, WaitOk, WaitLost, WaitTimesOut, HandleStep, hooks,
                life, answer, Unsettled
  <2>2. \/ life = "down" /\ handle' = "ok"
        \/ life = "lost" /\ handle' = "lost"
        \/ life \in {"up", "stopping"} /\ handle' = "timeout"
    BY <1>3 DEF WaitEnds, WaitOk, WaitLost, WaitTimesOut, HandleStep, life
  <2> QED
    BY <2>1, <2>2 DEF L!Next, L!Answer
<1> QED
  BY <1>1, <1>2, <1>3 DEF HandleNext, WaitForCompletion, DropHandle

(* Every step of the tasks is a step of Lifecycle or a stutter.            *)
LEMMA NextLifecycle ==
  ASSUME IInv, [Next]_vars
  PROVE  [L!Next]_<<life, Cardinality(Unsettled), answer>>
<1>1. CASE ConnNext \/ CallNext \/ ServerNext \/ UNCHANGED vars
  <2>1. /\ UNCHANGED <<shutdown_hooks, handle, monitor, cancelled>>
        /\ server # "running" => server' # "running"
    BY <1>1, ConnFrame, CallFrame, ServerFrame DEF vars, svars, hooks
  <2> QED
    BY <2>1, MayStop DEF L!Next
<1>2. CASE \/ MonitorCancelled
           \/ MonitorServerExit
           \/ AwaitDone
           \/ AwaitTimesOut
           \/ DrainDone
           \/ DrainTimesOut
  <2>1. /\ UNCHANGED <<shutdown_hooks, handle, cancelled, server>>
        /\ monitor # "done" /\ monitor # "panicked"
        /\ monitor' # "done" /\ monitor' # "panicked"
    BY <1>2 DEF MonitorCancelled, MonitorServerExit, AwaitDone, AwaitTimesOut,
                DrainDone, DrainTimesOut, Drain, MonitorStep, hooks
  <2> QED
    BY <2>1, MayStop DEF L!Next
<1>3. CASE HandleNext
  BY <1>3, WaitImplements
<1>4. CASE ShutDownManagers(HooksStep)
  BY <1>4, HooksImplement
<1>5. CASE MonitorPanics \/ SignalCompletion
  BY <1>5, PanicImplements, SignalImplements DEF L!Next
<1> QED
  BY <1>1, <1>2, <1>3, <1>4, <1>5 DEF Next, MonitorNext

(* Every behaviour of the server is one that Lifecycle allows: each step   *)
(* maps to a step of it or to a stutter.  (Its fairness is left to TLC.)   *)
THEOREM RefinesLifecycle ==
  Spec => L!Init /\ [][L!Next]_<<life, Cardinality(Unsettled), answer>>
  BY Invariance, InitLifecycle, NextLifecycle, PTL DEF Spec
=============================================================================
