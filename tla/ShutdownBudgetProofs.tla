------------------------ MODULE ShutdownBudgetProofs ------------------------
(***************************************************************************)
(* Proofs about ShutdownBudget for every timeout, share and number of      *)
(* hooks.  IInv gives each wait of the monitor the latest second at which  *)
(* it may still be under way, as the sum of the waits before it and its    *)
(* own; the two counters of the budget add up to the clock.                *)
(***************************************************************************)
EXTENDS ShutdownBudget, TLAPS

(* The two parts do not exceed the whole.                                  *)
LEMMA Parts ==
  /\ http_drain_timeout \in Nat
  /\ manager_buffer \in Nat
  /\ server_shutdown_timeout \in Nat
  /\ DrainBy \in Nat
  /\ http_drain_timeout + manager_buffer <= shutdown_timeout
  BY BudgetAssumption
     DEF http_drain_timeout, manager_buffer, server_shutdown_timeout, DrainBy

(* One more hook adds one timeout, and no number of settled hooks more     *)
(* than all of them.                                                       *)
LEMMA HookTime ==
  ASSUME NEW n \in 0..NHooks
  PROVE  /\ n * PER_MANAGER_TIMEOUT \in Nat
         /\ (n + 1) * PER_MANAGER_TIMEOUT
              = n * PER_MANAGER_TIMEOUT + PER_MANAGER_TIMEOUT
         /\ n * PER_MANAGER_TIMEOUT <= NHooks * PER_MANAGER_TIMEOUT
<1>1. NHooks \in Nat /\ PER_MANAGER_TIMEOUT \in Nat /\ n \in Nat
  BY BudgetAssumption
<1>2. n * PER_MANAGER_TIMEOUT \in Nat
  BY <1>1
<1>3. (n + 1) * PER_MANAGER_TIMEOUT
        = n * PER_MANAGER_TIMEOUT + PER_MANAGER_TIMEOUT
  BY <1>1
<1>4. PICK m \in Nat : NHooks = n + m
  <2>1. NHooks - n \in Nat /\ NHooks = n + (NHooks - n)
    BY <1>1
  <2> QED
    BY <2>1
<1>5. NHooks * PER_MANAGER_TIMEOUT
        = n * PER_MANAGER_TIMEOUT + m * PER_MANAGER_TIMEOUT
  BY <1>1, <1>4
<1>6. m * PER_MANAGER_TIMEOUT \in Nat
  BY <1>1
<1> QED
  BY <1>2, <1>3, <1>5, <1>6

-----------------------------------------------------------------------------
LEMMA InitIInv == Init => IInv
  BY BudgetAssumption, Parts
     DEF Init, IInv, TypeOK, WaitsInTurn, SharesSuffice, Over

(* cancel() starts the wait for the server task at second 0.               *)
LEMMA CancelIInv == IInv /\ Cancel => IInv'
  BY BudgetAssumption, Parts
     DEF Cancel, IInv, TypeOK, WaitsInTurn, SharesSuffice, Over

(* The clients and the owner of the handle move no wait.                   *)
LEMMA ClientIInv == IInv /\ ClientNext => IInv'
<1> SUFFICES ASSUME IInv, ClientNext PROVE IInv'
  OBVIOUS
<1> USE BudgetAssumption
    DEF ClientNext, ServerFinish, BeginRequest, EndRequest, Requests, IInv
<1>1. TypeOK'
  BY DEF TypeOK
<1>2. UNCHANGED <<clock, since, monitor, settled, handle, awaited, cleaned>>
  OBVIOUS
<1>3. WaitsInTurn'
  BY <1>2 DEF WaitsInTurn, Over, EndsInTime
<1>4. SharesSuffice'
  BY <1>2 DEF SharesSuffice
<1> QED
  BY <1>1, <1>2, <1>3, <1>4

(* An answer by the timeout comes when the two phases have used it up.     *)
LEMMA WaitIInv == IInv /\ WaitNext => IInv'
<1> SUFFICES ASSUME IInv, WaitNext PROVE IInv'
  OBVIOUS
<1> USE DEF WaitNext, WaitOk, WaitLost, WaitTimesOut, WaitEnds
<1>1. /\ UNCHANGED <<clock, since, server, active_requests, monitor, settled,
                     awaited, cleaned>>
      /\ handle = "waiting"
      /\ handle' \in {"ok", "lost", "timeout"}
      /\ handle' = "timeout" => clock >= shutdown_timeout
  BY DEF WaitExpired
<1>2. TypeOK'
  BY <1>1 DEF IInv, TypeOK
<1>3. WaitsInTurn'
  BY <1>1 DEF IInv, WaitsInTurn, Over, EndsInTime
<1>4. SharesSuffice'
  BY <1>1, Parts, BudgetAssumption DEF IInv, TypeOK, SharesSuffice
<1> QED
  BY <1>1, <1>2, <1>3, <1>4 DEF IInv

-----------------------------------------------------------------------------
(* What every step of the monitor leaves of the invariant.                 *)
LEMMA MonitorFrame ==
  ASSUME IInv, NEW from, NEW to, MonitorStep(from, to),
         from \in {"awaitServer", "drain", "managers"},
         to \in {"drain", "managers", "done", "panicked"},
         settled' \in 0..NHooks,
         WaitsInTurn'
  PROVE  IInv'
<1> USE DEF MonitorStep
<1>1. TypeOK'
  BY DEF IInv, TypeOK
<1> QED
  BY <1>1 DEF IInv, TypeOK, SharesSuffice

LEMMA AwaitIInv == IInv /\ (AwaitDone \/ AwaitTimesOut) => IInv'
<1> SUFFICES ASSUME IInv, AwaitDone \/ AwaitTimesOut PROVE IInv'
  OBVIOUS
<1> USE DEF AwaitDone, AwaitTimesOut
<1>1. MonitorStep("awaitServer", "drain") /\ settled' = settled
  OBVIOUS
<1>2. WaitsInTurn'
  BY <1>1, Parts, BudgetAssumption
     DEF MonitorStep, IInv, TypeOK, WaitsInTurn, Over
<1>3. settled' \in 0..NHooks
  BY <1>1 DEF IInv, TypeOK
<1> QED
  BY <1>1, <1>2, <1>3, MonitorFrame

LEMMA DrainIInv == IInv /\ (DrainDone \/ DrainTimesOut) => IInv'
<1> SUFFICES ASSUME IInv, DrainDone \/ DrainTimesOut PROVE IInv'
  OBVIOUS
<1> USE DEF DrainDone, DrainTimesOut
<1>1. MonitorStep("drain", "managers") /\ settled' = settled
  OBVIOUS
<1>2. settled \in 0..NHooks /\ settled * PER_MANAGER_TIMEOUT \in Nat
  BY HookTime DEF IInv, TypeOK
<1>3. clock <= DrainBy
  BY <1>1, Parts, BudgetAssumption
     DEF MonitorStep, IInv, TypeOK, WaitsInTurn, DrainBy
<1>4. clock <= DrainBy + settled * PER_MANAGER_TIMEOUT
  BY <1>2, <1>3, Parts DEF IInv, TypeOK
<1>5. WaitsInTurn'
  BY <1>1, <1>4, BudgetAssumption
     DEF MonitorStep, IInv, TypeOK, WaitsInTurn, Over
<1> QED
  BY <1>1, <1>2, <1>5, MonitorFrame

(* A hook that is settled has taken no longer than its own timeout, so the *)
(* next one begins, or a panic ends the monitor, one timeout later.        *)
LEMMA HookIInv ==
  IInv /\ (HookEnds \/ HookTimesOut \/ HookPanics) => IInv'
<1> SUFFICES ASSUME IInv, HookEnds \/ HookTimesOut \/ HookPanics PROVE IInv'
  OBVIOUS
<1>1. /\ settled < NHooks
      /\ settled' = settled + 1
      /\ \/ MonitorStep("managers", "managers")
         \/ MonitorStep("managers", "panicked")
  BY DEF HookEnds, HookTimesOut, SettleHook, HookPanics
<1>2. settled' \in 0..NHooks /\ settled \in 0..NHooks
  BY <1>1, BudgetAssumption DEF IInv, TypeOK
<1>3. /\ clock <= since + PER_MANAGER_TIMEOUT
      /\ since <= DrainBy + settled * PER_MANAGER_TIMEOUT
  BY <1>1 DEF MonitorStep, IInv, WaitsInTurn
<1>4. /\ settled * PER_MANAGER_TIMEOUT \in Nat
      /\ (settled + 1) * PER_MANAGER_TIMEOUT
           = settled * PER_MANAGER_TIMEOUT + PER_MANAGER_TIMEOUT
  BY <1>2, HookTime
<1>5. clock <= DrainBy + settled' * PER_MANAGER_TIMEOUT
  BY <1>1, <1>3, <1>4, Parts, BudgetAssumption DEF IInv, TypeOK
<1>6. settled' * PER_MANAGER_TIMEOUT \in Nat
      /\ settled' * PER_MANAGER_TIMEOUT <= NHooks * PER_MANAGER_TIMEOUT
  BY <1>2, HookTime
<1>7. NHooks * PER_MANAGER_TIMEOUT \in Nat
  BY BudgetAssumption
<1>8. clock <= LongestShutdown
  BY <1>5, <1>6, <1>7, Parts DEF IInv, TypeOK, LongestShutdown, DrainBy
<1>9. WaitsInTurn'
  BY <1>1, <1>2, <1>5, <1>8, BudgetAssumption
     DEF MonitorStep, IInv, TypeOK, WaitsInTurn, Over, EndsInTime,
         LongestShutdown, server_shutdown_timeout, http_drain_timeout
<1>10. CASE MonitorStep("managers", "managers")
  BY <1>2, <1>9, <1>10, MonitorFrame
<1>11. CASE MonitorStep("managers", "panicked")
  BY <1>2, <1>9, <1>11, MonitorFrame
<1> QED
  BY <1>1, <1>10, <1>11

LEMMA SignalIInv == IInv /\ SignalCompletion => IInv'
<1> SUFFICES ASSUME IInv, SignalCompletion PROVE IInv'
  OBVIOUS
<1>1. /\ settled = NHooks /\ settled' = settled
      /\ MonitorStep("managers", "done")
  BY DEF SignalCompletion
<1>2. clock <= DrainBy + NHooks * PER_MANAGER_TIMEOUT
  BY <1>1, BudgetAssumption DEF MonitorStep, IInv, WaitsInTurn
<1>3. clock <= LongestShutdown
  BY <1>2 DEF LongestShutdown, DrainBy
<1>4. WaitsInTurn'
  BY <1>1, <1>3
     DEF MonitorStep, WaitsInTurn, Over, EndsInTime,
         LongestShutdown, server_shutdown_timeout, http_drain_timeout
<1>5. settled' \in 0..NHooks
  BY <1>1 DEF IInv, TypeOK
<1> QED
  BY <1>1, <1>4, <1>5, MonitorFrame

(* A second passes only when no wait has expired.                          *)
LEMMA TickIInv == IInv /\ Tick => IInv'
<1> SUFFICES ASSUME IInv, Tick PROVE IInv'
  OBVIOUS
<1>1. /\ clock' = clock + 1
      /\ UNCHANGED <<since, server, active_requests, monitor, settled, handle>>
      /\ monitor # "select" /\ ~Due /\ ~Over
  BY DEF Tick
<1>2. /\ awaited' + cleaned' = clock'
      /\ awaited' \in Nat /\ cleaned' \in Nat
      /\ awaited' >= awaited /\ cleaned' >= cleaned
  BY DEF Tick, IInv, TypeOK
<1>3. TypeOK'
  BY <1>1, <1>2 DEF IInv, TypeOK
<1>4. WaitsInTurn'
  BY <1>1, Parts, BudgetAssumption
     DEF IInv, TypeOK, WaitsInTurn, Due, Over, elapsed, AwaitExpired,
         DrainExpired, HookExpired
<1>5. SharesSuffice'
  BY <1>1, <1>2, Parts DEF IInv, TypeOK, SharesSuffice
<1> QED
  BY <1>1, <1>2, <1>3, <1>4, <1>5 DEF IInv

-----------------------------------------------------------------------------
LEMMA NextIInv == IInv /\ [Next]_vars => IInv'
<1> SUFFICES ASSUME IInv, [Next]_vars PROVE IInv'
  OBVIOUS
<1>1. CASE MonitorNext
  BY <1>1, AwaitIInv, DrainIInv, HookIInv, SignalIInv DEF MonitorNext
<1>2. CASE UNCHANGED vars
  <2>1. TypeOK' /\ WaitsInTurn'
    BY <1>2 DEF vars, IInv, TypeOK, WaitsInTurn, Over, EndsInTime
  <2> QED
    BY <1>2, <2>1 DEF vars, IInv, SharesSuffice
<1> QED
  BY <1>1, <1>2, CancelIInv, ClientIInv, WaitIInv, TickIInv DEF Next

(* The waits follow each other within their bounds, for all timeouts.      *)
THEOREM Invariance == Spec => []IInv
  BY InitIInv, NextIInv, PTL DEF Spec

THEOREM TypeCorrect == Spec => []TypeOK
<1>1. IInv => TypeOK
  BY DEF IInv
<1> QED
  BY <1>1, Invariance, PTL

(* The monitor ends within the sum of its timeouts, whatever the clients   *)
(* and the hooks do.                                                       *)
THEOREM ShutdownEndsInTime == Spec => []EndsInTime
<1>1. IInv => EndsInTime
  <2> SUFFICES ASSUME IInv PROVE EndsInTime
    OBVIOUS
  <2>1. settled \in 0..NHooks
    BY DEF IInv, TypeOK
  <2>2. /\ settled * PER_MANAGER_TIMEOUT \in Nat
        /\ settled * PER_MANAGER_TIMEOUT <= NHooks * PER_MANAGER_TIMEOUT
        /\ (settled + 1) * PER_MANAGER_TIMEOUT
             = settled * PER_MANAGER_TIMEOUT + PER_MANAGER_TIMEOUT
    BY <2>1, HookTime
  <2>3. NHooks * PER_MANAGER_TIMEOUT \in Nat
    BY BudgetAssumption
  <2>4. CASE monitor # "managers"
    BY <2>3, <2>4, Parts, BudgetAssumption
       DEF IInv, TypeOK, WaitsInTurn, Over, EndsInTime, LongestShutdown, DrainBy
  <2>5. CASE monitor = "managers" /\ settled = NHooks
    BY <2>2, <2>3, <2>5, Parts
       DEF IInv, TypeOK, WaitsInTurn, EndsInTime, LongestShutdown, DrainBy
  <2>6. CASE monitor = "managers" /\ settled < NHooks
    <3>1. settled + 1 \in 0..NHooks
      BY <2>1, <2>6, BudgetAssumption
    <3>2. (settled + 1) * PER_MANAGER_TIMEOUT <= NHooks * PER_MANAGER_TIMEOUT
      BY <3>1, HookTime
    <3>3. clock <= DrainBy + (settled + 1) * PER_MANAGER_TIMEOUT
      BY <2>2, <2>6, Parts, BudgetAssumption DEF IInv, TypeOK, WaitsInTurn
    <3> QED
      BY <2>2, <2>3, <3>2, <3>3, Parts, BudgetAssumption
         DEF IInv, TypeOK, EndsInTime, LongestShutdown, DrainBy
  <2> QED
    BY <2>1, <2>4, <2>5, <2>6, BudgetAssumption
<1> QED
  BY <1>1, Invariance, PTL

(* A shutdown whose phases keep to their shares of the budget is not       *)
(* answered by the timeout.                                                *)
THEOREM SharesAreEnough == Spec => []SharesSuffice
<1>1. IInv => SharesSuffice
  BY DEF IInv
<1> QED
  BY <1>1, Invariance, PTL

-----------------------------------------------------------------------------
(* The refinement of Lifecycle.                                            *)
LEMMA InitLifecycle == Init => L!Init
  BY BudgetAssumption DEF Init, L!Init, life, answer

(* A step that settles no hook and ends nothing is Stop or a stutter.      *)
LEMMA MayStop ==
  ASSUME UNCHANGED <<settled, answer>>,
         life' = life \/ (life = "up" /\ life' = "stopping")
  PROVE  [L!Stop]_<<life, NHooks - settled, answer>>
  BY DEF L!Stop

(* What the monitor does to the hooks.                                     *)
LEMMA HooksImplement ==
  ASSUME IInv, HookEnds \/ HookTimesOut \/ HookPanics
  PROVE  L!StopHook \/ L!GetLost
<1>1. /\ monitor = "managers" /\ settled < NHooks /\ settled' = settled + 1
      /\ handle' = handle
      /\ \/ monitor' = "managers" /\ (HookEnds \/ HookTimesOut)
         \/ monitor' = "panicked" /\ HookPanics
  BY DEF HookEnds, HookTimesOut, HookPanics, SettleHook, MonitorStep
<1>2. settled \in 0..NHooks /\ NHooks \in Nat
  BY BudgetAssumption DEF IInv, TypeOK
<1>3. NHooks - settled > 0 /\ NHooks - settled' = NHooks - settled - 1
  BY <1>1, <1>2
<1>4. life = "stopping" /\ answer' = answer /\ life' \in {"stopping", "lost"}
  BY <1>1 DEF life, answer
<1> QED
  BY <1>3, <1>4 DEF L!StopHook, L!GetLost

(* The answer of wait_for_completion fits what the monitor has done.       *)
LEMMA WaitImplements ==
  ASSUME IInv, WaitNext PROVE L!Answer
<1>1. /\ UNCHANGED <<monitor, settled>> /\ handle = "waiting"
      /\ \/ monitor = "done" /\ handle' = "ok"
         \/ monitor = "panicked" /\ handle' = "lost"
         \/ monitor \notin {"done", "panicked"} /\ handle' = "timeout"
  BY DEF WaitNext, WaitOk, WaitLost, WaitTimesOut, WaitEnds, Over
<1>2. UNCHANGED <<life, NHooks - settled>> /\ answer = "none"
      /\ answer' = handle'
  BY <1>1 DEF life, answer
<1>3. \/ life = "down" /\ handle' = "ok"
      \/ life = "lost" /\ handle' = "lost"
      \/ life \in {"up", "stopping"} /\ handle' = "timeout"
  BY <1>1 DEF life
<1> QED
  BY <1>2, <1>3 DEF L!Answer

(* Every step is a step of Lifecycle or a stutter.                         *)
LEMMA NextLifecycle ==
  ASSUME IInv, [Next]_vars
  PROVE  [L!Next]_<<life, NHooks - settled, answer>>
<1>1. CASE Cancel \/ ClientNext \/ Tick \/ UNCHANGED vars
  <2>1. /\ settled' = settled
        /\ \/ monitor' = monitor /\ handle' = handle
           \/ /\ monitor = "select" /\ monitor' = "awaitServer"
              /\ handle = "held" /\ handle' = "waiting"
    BY <1>1 DEF Cancel, ClientNext, ServerFinish, BeginRequest, EndRequest,
                Requests, Tick, vars
  <2>2. answer' = answer /\ (life' = life \/ (life = "up" /\ life' = "stopping"))
    BY <2>1 DEF life, answer
  <2> QED
    BY <2>1, <2>2, MayStop DEF L!Next
<1>2. CASE AwaitDone \/ AwaitTimesOut \/ DrainDone \/ DrainTimesOut
  <2>1. /\ settled' = settled /\ handle' = handle
        /\ monitor \in {"awaitServer", "drain"}
        /\ monitor' \in {"drain", "managers"}
    BY <1>2 DEF AwaitDone, AwaitTimesOut, DrainDone, DrainTimesOut, MonitorStep
  <2>2. answer' = answer /\ life' = life
    BY <2>1 DEF life, answer
  <2> QED
    BY <2>1, <2>2, MayStop DEF L!Next
<1>3. CASE HookEnds \/ HookTimesOut \/ HookPanics
  BY <1>3, HooksImplement DEF L!Next
<1>4. CASE SignalCompletion
  <2>1. /\ settled = NHooks /\ settled' = settled /\ handle' = handle
        /\ monitor = "managers" /\ monitor' = "done"
    BY <1>4 DEF SignalCompletion, MonitorStep
  <2>2. NHooks - settled = 0 /\ NHooks - settled' = NHooks - settled
    BY <2>1, BudgetAssumption
  <2>3. life = "stopping" /\ life' = "down" /\ answer' = answer
    BY <2>1 DEF life, answer
  <2> QED
    BY <2>2, <2>3 DEF L!Next, L!GoDown
<1>5. CASE WaitNext
  BY <1>5, WaitImplements DEF L!Next
<1> QED
  BY <1>1, <1>2, <1>3, <1>4, <1>5 DEF Next, MonitorNext

(* With its waits and a clock, the shutdown does what Lifecycle allows and *)
(* nothing else.  (That it ends is left to TLC.)                           *)
THEOREM RefinesLifecycle ==
  Spec => L!Init /\ [][L!Next]_<<life, NHooks - settled, answer>>
  BY Invariance, InitLifecycle, NextLifecycle, PTL DEF Spec
=============================================================================
