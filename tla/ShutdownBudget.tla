--------------------------- MODULE ShutdownBudget ---------------------------
(***************************************************************************)
(* How long a shutdown takes: the waits of the monitor task of             *)
(* src/src/server.rs and of the handle, with a clock.  Shutdown leaves     *)
(* time out and says what may happen in which order; this module keeps the *)
(* waits and abstracts the clients to a number of active requests.         *)
(*                                                                         *)
(* The clock counts seconds from ServerHandle::cancel(), which run() calls *)
(* right before wait_for_completion(timeout); a server that exits before   *)
(* it is cancelled is left to Shutdown.  A second cannot pass while the    *)
(* monitor has something due: a timer that fires is polled within it, and  *)
(* so is the drain loop, which sleeps 100 ms.                              *)
(***************************************************************************)
EXTENDS Naturals

CONSTANTS
  shutdown_timeout,      \* --shutdown-timeout-secs
  drain_timeout,         \* how long the drain loop waits
  PER_MANAGER_TIMEOUT,   \* how long shutdown() waits for one hook
  NHooks,                \* hooks that are registered
  MaxActive              \* bound: requests active at a time

ASSUME BudgetAssumption ==
  /\ shutdown_timeout \in Nat /\ shutdown_timeout % 10 = 0
  /\ drain_timeout \in Nat
  /\ PER_MANAGER_TIMEOUT \in Nat
  /\ NHooks \in Nat
  /\ MaxActive \in Nat

VARIABLES
  clock,             \* seconds since the cancellation
  since,             \* when the wait under way began
  server,            \* the server_task
  active_requests,   \* calls and TLS connections with a guard
  monitor,           \* where the monitor task is
  settled,           \* hooks that have stopped or were given up
  handle,            \* what wait_for_completion does or has returned
  awaited, cleaned   \* seconds the two phases of the budget have taken

vars == <<clock, since, server, active_requests, monitor, settled, handle,
          awaited, cleaned>>

(* The two parts of the budget, and what is granted to the server task.    *)
http_drain_timeout      == (7 * shutdown_timeout) \div 10
manager_buffer          == (3 * shutdown_timeout) \div 10
server_shutdown_timeout == http_drain_timeout + 5

elapsed == clock - since

(* When each wait has lasted long enough.                                  *)
AwaitExpired == elapsed >= server_shutdown_timeout
DrainExpired == elapsed > drain_timeout
HookExpired  == elapsed >= PER_MANAGER_TIMEOUT

WaitExpired_DrainOnly == clock >= http_drain_timeout

WaitExpired == clock >= shutdown_timeout

-----------------------------------------------------------------------------
Init ==
  /\ clock = 0 /\ since = 0
  /\ server = "running"
  /\ active_requests \in 0..MaxActive
  /\ monitor = "select"
  /\ settled = 0
  /\ handle = "held"
  /\ awaited = 0 /\ cleaned = 0

(* run(): cancel(), then wait_for_completion(timeout).                     *)
Cancel ==
  /\ handle = "held" /\ monitor = "select"
  /\ handle' = "waiting"
  /\ monitor' = "awaitServer"
  /\ UNCHANGED <<clock, since, server, active_requests, settled, awaited, cleaned>>

(* The clients: the accept loop or axum ends, requests end, and those that *)
(* were queued in a session begin.                                         *)
ServerFinish ==
  /\ monitor # "select"
  /\ server = "running"
  /\ server' = "finished"
  /\ UNCHANGED <<clock, since, active_requests, monitor, settled, handle,
                 awaited, cleaned>>

Requests_RestartDrain(n) ==
  /\ active_requests' = n
  /\ since' = IF monitor = "drain" THEN clock ELSE since
  /\ UNCHANGED <<clock, server, monitor, settled, handle, awaited, cleaned>>

Requests(n) ==
  /\ active_requests' = n
  /\ UNCHANGED <<clock, since, server, monitor, settled, handle, awaited, cleaned>>

BeginRequest == active_requests < MaxActive /\ Requests(active_requests + 1)
EndRequest   == active_requests > 0 /\ Requests(active_requests - 1)

-----------------------------------------------------------------------------
(* The monitor task goes on to its next wait.                              *)
MonitorStep(from, to) ==
  /\ monitor = from
  /\ monitor' = to
  /\ since' = clock
  /\ UNCHANGED <<clock, server, active_requests, handle, awaited, cleaned>>

AwaitDone ==
  /\ server # "running"
  /\ MonitorStep("awaitServer", "drain")
  /\ UNCHANGED settled

AwaitTimesOut ==
  /\ server = "running"
  /\ AwaitExpired
  /\ MonitorStep("awaitServer", "drain")
  /\ UNCHANGED settled

DrainDone ==
  /\ active_requests = 0
  /\ MonitorStep("drain", "managers")
  /\ UNCHANGED settled

DrainTimesOut ==
  /\ active_requests # 0
  /\ DrainExpired
  /\ MonitorStep("drain", "managers")
  /\ UNCHANGED settled

(* One hook after the other; each starts with a timeout of its own.        *)
SettleHook_OnePast ==
  /\ settled <= NHooks
  /\ MonitorStep("managers", "managers")
  /\ settled' = settled + 1

SettleHook ==
  /\ settled < NHooks
  /\ MonitorStep("managers", "managers")
  /\ settled' = settled + 1

HookEnds     == SettleHook
HookTimesOut == HookExpired /\ SettleHook

HookPanics ==
  /\ settled < NHooks
  /\ MonitorStep("managers", "panicked")
  /\ settled' = settled + 1

SignalCompletion_Early ==
  /\ MonitorStep("managers", "done")
  /\ UNCHANGED settled

SignalCompletion ==
  /\ settled = NHooks
  /\ MonitorStep("managers", "done")
  /\ UNCHANGED settled

-----------------------------------------------------------------------------
Over == monitor \in {"done", "panicked"}

(* timeout(timeout, completion_rx): the receiver is polled first.          *)
WaitEnds(answer) ==
  /\ handle = "waiting"
  /\ handle' = answer
  /\ UNCHANGED <<clock, since, server, active_requests, monitor, settled,
                 awaited, cleaned>>

WaitOk       == monitor = "done" /\ WaitEnds("ok")
WaitLost     == monitor = "panicked" /\ WaitEnds("lost")
WaitTimesOut == /\ ~Over
                /\ WaitExpired
                /\ WaitEnds("timeout")

-----------------------------------------------------------------------------
(* What is due is done before the next second; a shutdown that is over, or *)
(* has not begun, needs no clock.                                          *)
Due ==
  \/ monitor = "awaitServer" /\ (server # "running" \/ AwaitExpired)
  \/ monitor = "drain" /\ (active_requests = 0 \/ DrainExpired)
  \/ monitor = "managers" /\ (settled = NHooks \/ HookExpired)
  \/ handle = "waiting" /\ (Over \/ WaitExpired)

Tick ==
  /\ monitor # "select"
  /\ ~Due /\ ~Over
  /\ clock' = clock + 1
  /\ awaited' = IF monitor = "awaitServer" THEN awaited + 1 ELSE awaited
  /\ cleaned' = IF monitor # "awaitServer" THEN cleaned + 1 ELSE cleaned
  /\ UNCHANGED <<since, server, active_requests, monitor, settled, handle>>

ClientNext  == ServerFinish \/ BeginRequest \/ EndRequest
MonitorNext ==
  \/ AwaitDone
  \/ AwaitTimesOut
  \/ DrainDone
  \/ DrainTimesOut
  \/ HookEnds
  \/ HookTimesOut
  \/ HookPanics
  \/ SignalCompletion
WaitNext    == WaitOk \/ WaitLost \/ WaitTimesOut

Next == Cancel \/ ClientNext \/ MonitorNext \/ WaitNext \/ Tick

(* Time passes, and what is due is done.  The owner, the clients and the   *)
(* hooks owe nothing.                                                      *)
Progress ==
  \/ AwaitDone
  \/ AwaitTimesOut
  \/ DrainDone
  \/ DrainTimesOut
  \/ HookTimesOut
  \/ SignalCompletion
  \/ WaitNext
  \/ Tick

Spec == Init /\ [][Next]_vars /\ WF_vars(Progress)

-----------------------------------------------------------------------------
TypeOK ==
  /\ clock \in Nat
  /\ since \in 0..clock
  /\ server \in {"running", "finished"}
  /\ active_requests \in 0..MaxActive
  /\ monitor \in {"select", "awaitServer", "drain", "managers", "done", "panicked"}
  /\ settled \in 0..NHooks
  /\ handle \in {"held", "waiting", "ok", "lost", "timeout"}
  /\ awaited \in Nat /\ cleaned \in Nat

(* However the waits follow each other, and whatever clients and hooks do, *)
(* the monitor is done within the sum of its timeouts; a request that      *)
(* begins during the drain does not start the wait over.                   *)
LongestShutdown ==
  server_shutdown_timeout + drain_timeout + 1 + NHooks * PER_MANAGER_TIMEOUT

EndsInTime == clock <= LongestShutdown

(* A shutdown of which each part takes less than its share of the budget   *)
(* is never answered by a timeout.                                         *)
SharesSuffice ==
  handle = "timeout" =>
    awaited >= http_drain_timeout \/ cleaned >= manager_buffer

(* How late each wait may still be under way: the bounds of the waits      *)
(* before it, and its own.                                                 *)
DrainBy == server_shutdown_timeout + drain_timeout + 1

WaitsInTurn ==
  /\ monitor = "select" => clock = 0
  /\ monitor = "awaitServer" => since = 0 /\ clock <= server_shutdown_timeout
  /\ monitor = "drain" =>
       /\ since <= server_shutdown_timeout
       /\ clock <= since + drain_timeout + 1
  /\ monitor = "managers" =>
       /\ since <= DrainBy + settled * PER_MANAGER_TIMEOUT
       /\ IF settled < NHooks THEN clock <= since + PER_MANAGER_TIMEOUT
                              ELSE clock = since
  /\ Over => EndsInTime

IInv ==
  /\ TypeOK
  /\ WaitsInTurn
  /\ awaited + cleaned = clock
  /\ handle = "held" <=> monitor = "select"
  /\ SharesSuffice

(* The same as a promise without a clock: the waits, one after the other,  *)
(* do what Lifecycle says and end, so nothing is left running for ever by  *)
(* an owner that stopped waiting.                                          *)
life == CASE monitor = "select"   -> "up"
          [] monitor = "done"     -> "down"
          [] monitor = "panicked" -> "lost"
          [] OTHER                -> "stopping"

answer == IF handle \in {"held", "waiting"} THEN "none" ELSE handle

L == INSTANCE Lifecycle WITH Hooks <- NHooks, pending <- NHooks - settled

ImplementsLifecycle == L!Spec

(* "Request drain and manager timeouts are independent but must fit within *)
(* the cleanup buffer": the drain and the hooks together take no more than *)
(* 30% of the timeout.  A request that does not end keeps the drain alone  *)
(* waiting for longer.                                                     *)
CleanupFitsBuffer == cleaned <= manager_buffer
=============================================================================
