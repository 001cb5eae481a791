------------------------------ MODULE Shutdown ------------------------------
(***************************************************************************)
(* The life of one HTTP server (src/src/server.rs): the accept loop, the   *)
(* connections, the tool calls counted by RequestGuard, the monitor task   *)
(* that shuts everything down, and the ServerHandle.  serve_with_listener  *)
(* and serve_with_tls spawn the same tasks; tls says whether a certificate *)
(* was given.  managers.shutdown() is the module Managers.                 *)
(*                                                                         *)
(* Time is left out: a timeout may end whatever wait it guards, at any     *)
(* moment.  External (axum, hyper, rustls, rmcp), modelled from their use: *)
(* a connection's bytes and its end; an accepted request is handed to a    *)
(* session task of rmcp, so a call begins some time after the request has  *)
(* arrived and outlives its connection; axum's graceful shutdown returns   *)
(* when the last plain connection is closed.                               *)
(***************************************************************************)
EXTENDS Naturals, Sequences, FiniteSets

CONSTANTS
  Conns,    \* TCP connections that clients may open
  Calls,    \* tool calls that clients may submit
  NHooks    \* hooks registered before the server starts

ASSUME ShutdownAssumption ==
  /\ IsFiniteSet(Conns)
  /\ IsFiniteSet(Calls)
  /\ Conns \cap Calls = {}
  /\ NHooks \in Nat

VARIABLES
  tls,               \* whether the listener speaks TLS
  cancelled,         \* the CancellationToken
  accepting,         \* the accept loop still takes connections
  server,            \* the server_task
  conn,              \* state of each connection
  call,              \* state of each tool call
  active_requests,   \* the counter of RequestGuard
  monitor,           \* where the monitor task is
  early_exit,        \* the branch its select! took
  drained,           \* how its drain loop ended
  completion,        \* the oneshot channel to the handle
  handle,            \* what the owner of the ServerHandle does or has learnt
  shutdown_hooks, phase, count, next   \* the state of Managers

svars  == <<tls, cancelled, accepting, server, conn, call, active_requests,
            monitor, early_exit, drained, completion, handle>>
hooks  == <<shutdown_hooks, phase, count, next>>
vars   == <<svars, hooks>>

M == INSTANCE Managers WITH MaxHooks <- NHooks

(* The RequestGuards alive: one per running call and, over TLS, one per    *)
(* connection being served.                                                *)
RunningCalls == {k \in Calls : call[k] = "running"}
TlsGuards    == {c \in Conns : tls /\ conn[c] = "serving"}
Guards       == RunningCalls \cup TlsGuards

-----------------------------------------------------------------------------
Init ==
  /\ tls \in BOOLEAN
  /\ cancelled = FALSE
  /\ accepting = TRUE
  /\ server = "running"
  /\ conn = [c \in Conns |-> "none"]
  /\ call = [k \in Calls |-> "none"]
  /\ active_requests = 0
  /\ monitor = "select"
  /\ early_exit = FALSE
  /\ drained = "no"
  /\ completion = "empty"
  /\ handle = "held"
  /\ shutdown_hooks = [i \in 1..NHooks |-> "up"]
  /\ phase = "idle"
  /\ count = 0
  /\ next = 0

-----------------------------------------------------------------------------
(* The owner of the handle.  wait_for_completion consumes it, so there is  *)
(* no cancel() afterwards.  Dropping it does not cancel the token.         *)
Cancel ==
  /\ handle = "held"
  /\ ~cancelled
  /\ cancelled' = TRUE
  /\ UNCHANGED <<tls, accepting, server, conn, call, active_requests,
                 monitor, early_exit, drained, completion, handle, hooks>>

HandleStep(from, to) ==
  /\ handle = from
  /\ handle' = to
  /\ UNCHANGED <<tls, cancelled, accepting, server, conn, call,
                 active_requests, monitor, early_exit, drained, completion, hooks>>

WaitForCompletion == HandleStep("held", "waiting")
DropHandle        == \E from \in {"held", "waiting"} : HandleStep(from, "dropped")

(* tokio's timeout polls the receiver before it looks at the clock.        *)
WaitOk       == completion = "sent" /\ HandleStep("waiting", "ok")
WaitLost     == completion = "dropped" /\ HandleStep("waiting", "lost")
WaitTimesOut == completion = "empty" /\ HandleStep("waiting", "timeout")
WaitEnds     == WaitOk \/ WaitLost \/ WaitTimesOut

-----------------------------------------------------------------------------
(* Connections.  The handshake runs in a task of its own, which nothing    *)
(* cancels; the guard of a TLS connection is created only after it.        *)
ConnStep(c, from, to) ==
  /\ conn[c] = from
  /\ conn' = [conn EXCEPT ![c] = to]
  /\ UNCHANGED <<tls, cancelled, accepting, server, call, monitor,
                 early_exit, drained, completion, handle, hooks>>

Accept(c) ==
  /\ accepting
  /\ ConnStep(c, "none", IF tls THEN "handshake" ELSE "serving")
  /\ UNCHANGED active_requests

HandshakeOk_NoGuard(c) ==
  /\ ConnStep(c, "handshake", "serving")
  /\ UNCHANGED active_requests

HandshakeOk(c) ==
  /\ ConnStep(c, "handshake", "serving")
  /\ active_requests' = active_requests + 1

HandshakeFails(c) ==
  /\ ConnStep(c, "handshake", "closed")
  /\ UNCHANGED active_requests

CloseConn(c) ==
  /\ ConnStep(c, "serving", "closed")
  /\ active_requests' = IF tls THEN active_requests - 1 ELSE active_requests

-----------------------------------------------------------------------------
(* Tool calls.  A request arrives on an open connection and is queued in   *)
(* its session; the handler begins by creating a guard, which is dropped   *)
(* when the handler returns, is cancelled or panics.                       *)
CallStep(k, from, to) ==
  /\ call[k] = from
  /\ call' = [call EXCEPT ![k] = to]
  /\ UNCHANGED <<tls, cancelled, accepting, server, conn, monitor,
                 early_exit, drained, completion, handle, hooks>>

Submit(k) ==
  /\ \E c \in Conns : conn[c] = "serving"
  /\ CallStep(k, "none", "queued")
  /\ UNCHANGED active_requests

BeginCall(k) ==
  /\ CallStep(k, "queued", "running")
  /\ active_requests' = active_requests + 1

EndCall_LeaksGuard(k) ==
  /\ CallStep(k, "running", "done")
  /\ \/ active_requests' = active_requests - 1
     \/ UNCHANGED active_requests

EndCall(k) ==
  /\ CallStep(k, "running", "done")
  /\ active_requests' = active_requests - 1

-----------------------------------------------------------------------------
(* The server task.  The TLS loop breaks on cancellation and returns;      *)
(* axum::serve stops accepting and returns after the last connection.      *)
ServerStep ==
  UNCHANGED <<tls, cancelled, conn, call, active_requests, monitor,
              early_exit, drained, completion, handle, hooks>>

StopAccepting ==
  /\ cancelled /\ accepting
  /\ accepting' = FALSE
  /\ ServerStep
  /\ UNCHANGED server

ServerFinish ==
  /\ server = "running"
  /\ ~accepting
  /\ tls \/ \A c \in Conns : conn[c] # "serving"
  /\ server' = "finished"
  /\ ServerStep
  /\ UNCHANGED accepting

ServerPanic ==
  /\ server = "running"
  /\ server' = "panicked"
  /\ accepting' = FALSE
  /\ ServerStep

-----------------------------------------------------------------------------
(* The monitor task.  select! picks either branch when both are ready.     *)
MonitorStep(from, to) ==
  /\ monitor = from
  /\ monitor' = to
  /\ UNCHANGED <<tls, cancelled, accepting, server, conn, call,
                 active_requests, handle>>

MonitorCancelled ==
  /\ cancelled
  /\ MonitorStep("select", "awaitServer")
  /\ UNCHANGED <<early_exit, drained, completion, hooks>>

MonitorServerExit ==
  /\ server # "running"
  /\ MonitorStep("select", "drain")
  /\ early_exit' = TRUE
  /\ UNCHANGED <<drained, completion, hooks>>

(* timeout(server_shutdown_timeout, server_task): done, or given up.       *)
AwaitDone ==
  /\ server # "running"
  /\ MonitorStep("awaitServer", "drain")
  /\ UNCHANGED <<early_exit, drained, completion, hooks>>

AwaitTimesOut ==
  /\ server = "running"
  /\ MonitorStep("awaitServer", "drain")
  /\ UNCHANGED <<early_exit, drained, completion, hooks>>

(* One poll of the drain loop that leaves it.                              *)
Drain(result) ==
  /\ MonitorStep("drain", "managers")
  /\ drained' = result
  /\ UNCHANGED <<early_exit, completion, hooks>>

DrainDone_AtMostOne == active_requests \in {0, 1} /\ Drain("zero")

DrainDone == active_requests = 0 /\ Drain("zero")

DrainTimesOut_NoTimer == FALSE /\ Drain("timeout")

DrainTimesOut == active_requests # 0 /\ Drain("timeout")

(* managers.shutdown().await, which runs inside the monitor task.          *)
ShutDownManagers(Step) ==
  /\ monitor = "managers"
  /\ Step
  /\ UNCHANGED svars

HooksStep ==
  \/ M!BeginShutdown
  \/ M!StartHook
  \/ M!HookOk
  \/ M!HookErr
  \/ M!HookTimesOut
  \/ M!Return

(* A panicking hook unwinds the monitor and drops completion_tx.           *)
MonitorPanics ==
  /\ M!HookPanics
  /\ MonitorStep("managers", "panicked")
  /\ completion' = "dropped"
  /\ UNCHANGED <<early_exit, drained>>

(* The result of shutdown() is only logged.  send() fails when the handle  *)
(* has gone.                                                               *)
SignalCompletion_BeforeHooks ==
  /\ completion = "empty"
  /\ MonitorStep("managers", IF phase = "returned" THEN "done" ELSE "managers")
  /\ completion' = IF handle \in {"held", "waiting"} THEN "sent" ELSE "undelivered"
  /\ UNCHANGED <<early_exit, drained, hooks>>

SignalCompletion ==
  /\ phase = "returned"
  /\ MonitorStep("managers", "done")
  /\ completion' = IF handle \in {"held", "waiting"} THEN "sent" ELSE "undelivered"
  /\ UNCHANGED <<early_exit, drained, hooks>>

-----------------------------------------------------------------------------
HandleNext  == Cancel \/ WaitForCompletion \/ DropHandle \/ WaitEnds
ConnNext    == \E c \in Conns : \/ Accept(c)
                                \/ HandshakeOk(c)
                                \/ HandshakeFails(c)
                                \/ CloseConn(c)
CallNext    == \E k \in Calls : Submit(k) \/ BeginCall(k) \/ EndCall(k)
ServerNext  == StopAccepting \/ ServerFinish \/ ServerPanic
MonitorNext == \/ MonitorCancelled
               \/ MonitorServerExit
               \/ AwaitDone
               \/ AwaitTimesOut
               \/ DrainDone
               \/ DrainTimesOut
               \/ ShutDownManagers(HooksStep)
               \/ MonitorPanics
               \/ SignalCompletion

Next == HandleNext \/ ConnNext \/ CallNext \/ ServerNext \/ MonitorNext

(* The runtime polls the monitor, and its timers fire.  Clients, tool      *)
(* calls, hooks and the owner of the handle owe nothing.                   *)
Fairness ==
  /\ WF_vars(MonitorCancelled \/ MonitorServerExit)
  /\ WF_vars(AwaitDone \/ AwaitTimesOut)
  /\ WF_vars(DrainDone \/ DrainTimesOut)
  /\ WF_vars(ShutDownManagers(M!BeginShutdown))
  /\ WF_vars(ShutDownManagers(M!StartHook))
  /\ WF_vars(ShutDownManagers(M!HookTimesOut))
  /\ WF_vars(ShutDownManagers(M!Return))
  /\ WF_vars(SignalCompletion)
  /\ WF_vars(WaitEnds)

Spec == Init /\ [][Next]_vars /\ Fairness
-----------------------------------------------------------------------------
TypeOK ==
  /\ tls \in BOOLEAN
  /\ cancelled \in BOOLEAN
  /\ accepting \in BOOLEAN
  /\ server \in {"running", "finished", "panicked"}
  /\ conn \in [Conns -> {"none", "handshake", "serving", "closed"}]
  /\ call \in [Calls -> {"none", "queued", "running", "done"}]
  /\ active_requests \in Nat
  /\ monitor \in {"select", "awaitServer", "drain", "managers", "done", "panicked"}
  /\ early_exit \in BOOLEAN
  /\ drained \in {"no", "zero", "timeout"}
  /\ completion \in {"empty", "sent", "undelivered", "dropped"}
  /\ handle \in {"held", "waiting", "ok", "lost", "timeout", "dropped"}
  /\ M!TypeOK

(* The counter the drain loop reads is the number of guards alive, so it   *)
(* never wraps below zero and never stays up after a panic.                *)
ActiveCountsGuards == active_requests = Cardinality(Guards)

PlainHasNoHandshake == \A c \in Conns : conn[c] = "handshake" => tls

(* Where the monitor is, and what that says of the hooks and the channel.  *)
HooksFollowMonitor ==
  /\ M!IInv
  /\ Len(shutdown_hooks) = NHooks
  /\ phase # "idle" => count = NHooks
  /\ monitor \in {"select", "awaitServer", "drain"} => phase = "idle"
  /\ monitor = "done" => phase = "returned"
  /\ monitor = "panicked" <=> phase = "unwound"

SignalFollowsMonitor ==
  /\ monitor # "select" => cancelled \/ server # "running"
  /\ monitor \in {"select", "awaitServer", "drain"} <=> drained = "no"
  /\ completion = "dropped" <=> monitor = "panicked"
  /\ completion \in {"sent", "undelivered"} <=> monitor = "done"
  /\ handle = "ok" => completion = "sent"
  /\ handle = "lost" => completion = "dropped"

IInv ==
  /\ TypeOK
  /\ ActiveCountsGuards
  /\ PlainHasNoHandshake
  /\ HooksFollowMonitor
  /\ SignalFollowsMonitor

(* The drain loop declares the server idle only when no tool call runs     *)
(* and no TLS connection is served: a hook starts under a running call     *)
(* only if the drain timed out or the call began after the drain.          *)
DrainMeansIdle ==
  [][drained' = "zero" /\ drained = "no" => Guards = {}]_vars

(* What wait_for_completion returns: Ok only when every hook has stopped   *)
(* or been given up, SignalLost only when a hook panicked.                 *)
HandleIsHonest ==
  /\ handle = "ok" =>
       /\ monitor = "done"
       /\ \A i \in 1..NHooks : shutdown_hooks[i] \in M!Settled
  /\ handle = "lost" => \E i \in 1..NHooks : shutdown_hooks[i] = "panic"

(* The tasks together implement what Lifecycle promises, the termination   *)
(* of a started shutdown included, whatever calls and hooks do.            *)
Unsettled == {i \in DOMAIN shutdown_hooks : shutdown_hooks[i] \notin M!Settled}

life == IF monitor = "done" THEN "down"
        ELSE IF monitor = "panicked" THEN "lost"
        ELSE IF cancelled \/ server # "running" THEN "stopping"
        ELSE "up"

answer == IF handle \in {"ok", "lost", "timeout"} THEN handle ELSE "none"

L == INSTANCE Lifecycle WITH Hooks <- NHooks, pending <- Cardinality(Unsettled)

ImplementsLifecycle == L!Spec

(* "Now shut down managers (safe - all request handlers finished or        *)
(* timeout expired)": while the hooks run after a drain that did not time  *)
(* out, in a server that was cancelled, no tool call is running.  A call   *)
(* still queued, or a TLS handshake still under way, when the counter was  *)
(* read breaks this.                                                       *)
NoCallDuringManagerShutdown ==
  phase \in {"loop", "awaiting"} /\ drained = "zero" /\ ~early_exit
    => RunningCalls = {}
=============================================================================
